---- MODULE Spec2Model ----
(***************************************************************************)
(* A model of the bebion JavaScript runtime core: the generational         *)
(* mark-and-sweep collector (crates/bebion-gc), the bytecode compiler and  *)
(* its peephole optimizer (crates/bebion-compiler) and the stack virtual   *)
(* machine (crates/bebion-runtime), the lexer and the parser                *)
(* (crates/bebion-parser).                                                 *)
(***************************************************************************)
EXTENDS Integers, Sequences, FiniteSets, TLC

VARIABLES
    gc,         \* the GarbageCollector struct (gc/src/lib.rs:61-78)
    ret,        \* the last collector call, what it returned, the allocations before it
    live_only,  \* history: every handle passed in so far named a live object
    compiler,   \* the engine's Compiler (compiler/src/compiler.rs:7-11)
    vm,         \* the engine's VirtualMachine (runtime/src/vm.rs:10-17)
    phase,      \* where execute_script stands
    unit,       \* what the last compile call returned
    scripts,    \* execute_script calls made so far
    steps,      \* interpreter loop iterations of the running execute call
    parser,     \* the engine's Parser (parser/src/parser.rs:8-11)
    parsed,     \* the text handed to the lexer or parser and what came back
    event_loop, \* the EventLoop struct (runtime/src/event_loop.rs:14-21)
    promise     \* the Promise a host made with create_promise, and its callbacks

engineVars ==
    <<compiler, vm, phase, unit, scripts, steps, parser, parsed, event_loop, promise>>
vars ==
    <<gc, ret, live_only, compiler, vm, phase, unit, scripts, steps, parser, parsed,
      event_loop, promise>>

-----------------------------------------------------------------------------
(* Bounds of the collector model *)

MaxAllocations == 2      \* allocate calls per behaviour
MaxCollections == 12     \* explicit collect calls stop at this cycle count
MaxElems == 1            \* longest array handed to allocate / update_object

(* Bounds of the engine model *)
MaxScripts == 2          \* execute_script calls per behaviour
MaxSteps == 24           \* interpreter loop iterations followed per execute

(* Bounds of the parser model *)
MaxPieces == 3           \* pieces of a source text
MaxOperators == 2        \* binary operators of an operand chain

-----------------------------------------------------------------------------
(* Collector: configuration set by GarbageCollector::new *)

DefaultYoungThreshold == 1024 * 1024
DefaultOldThreshold == 10 * 1024 * 1024
collection_frequency == 100
FullCollectionPeriod == 10

Max(a, b) == IF a >= b THEN a ELSE b

SaturatingSub(a, b) == Max(0, a - b)

Range(s) == {s[i] : i \in DOMAIN s}

(* GcObjectType values: kind plus the handles the variant holds (array      *)
(* elements, in order).                                                     *)
NumberObj == [kind |-> "Number", elems |-> <<>>]
NullObj == [kind |-> "Null", elems |-> <<>>]
ObjectObj(vals) == [kind |-> "Object", elems |-> vals]
ArrayObj(elems) == [kind |-> "Array", elems |-> elems]
FunctionObj == [kind |-> "Function", elems |-> <<>>]
StringObj(s) == [kind |-> "String", elems |-> <<>>, str |-> s]

calculate_object_size(object_type) ==
    CASE object_type.kind = "Number" -> 8
      [] object_type.kind = "Boolean" -> 1
      [] object_type.kind = "String" -> Len(object_type.str)
      [] object_type.kind = "Null" -> 0
      [] object_type.kind = "Undefined" -> 0
      [] object_type.kind = "Object" -> Len(object_type.elems) * 16
      [] object_type.kind = "Array" -> Len(object_type.elems) * 8
      [] object_type.kind = "Function" -> 0 + Len(object_type.elems) * 16
      [] OTHER -> 64

extract_references(object_type) ==
    IF object_type.kind \in {"Object", "Array", "Function", "Promise"}
    THEN Range(object_type.elems)
    ELSE {}

NewCollector ==
    [ objects |-> <<>>,
      next_handle |-> 1,
      root_set |-> {},
      young_objects |-> {},
      old_objects |-> {},
      total_allocations |-> 0,
      total_collections |-> 0,
      bytes_allocated |-> 0,
      bytes_freed |-> 0,
      young_threshold |-> DefaultYoungThreshold,
      old_threshold |-> DefaultOldThreshold ]

Live(g) == DOMAIN g.objects

(* Handles reachable from the root set by following the outgoing references *)
(* of the objects that exist.                                               *)
RECURSIVE ReachClosure(_, _)
ReachClosure(g, seen) ==
    LET more == UNION {g.objects[h].references : h \in seen \cap Live(g)}
    IN IF more \subseteq seen THEN seen ELSE ReachClosure(g, seen \cup more)

Reachable(g) == ReachClosure(g, g.root_set)

clear_marks(g) ==
    [g EXCEPT !.objects = [h \in DOMAIN g.objects |->
                              [g.objects[h] EXCEPT !.marked = FALSE]]]

(* mark_object: a handle that names no object, or an object already marked, *)
(* is left alone; otherwise the object is marked and its references are     *)
(* visited in turn.                                                         *)
RECURSIVE mark_object(_, _)
RECURSIVE MarkEach(_, _)
MarkEach(objects, handles) ==
    IF handles = {} THEN objects
    ELSE LET h == CHOOSE x \in handles : TRUE
         IN MarkEach(mark_object(objects, h), handles \ {h})

mark_object(objects, handle) ==
    IF handle \in DOMAIN objects
    THEN IF objects[handle].marked
         THEN objects
         ELSE MarkEach([objects EXCEPT ![handle].marked = TRUE],
                       objects[handle].references)
    ELSE objects

mark_from_roots(g) == [g EXCEPT !.objects = MarkEach(g.objects, g.root_set)]

RECURSIVE SumSizes(_, _)
SumSizes(objects, handles) ==
    IF handles = {} THEN 0
    ELSE LET h == CHOOSE x \in handles : TRUE
         IN objects[h].size + SumSizes(objects, handles \ {h})

(* A remove_objects that forgets the generation sets. *)
remove_objects_from_map(g, handles) ==
    LET gone == handles \cap DOMAIN g.objects
    IN [g EXCEPT !.objects = [h \in DOMAIN g.objects \ gone |-> g.objects[h]],
                 !.root_set = @ \ gone,
                 !.bytes_allocated = SaturatingSub(@, SumSizes(g.objects, gone))]

remove_objects(g, handles) ==
    LET gone == handles \cap DOMAIN g.objects
        freed_bytes == SumSizes(g.objects, gone)
    IN [g EXCEPT !.objects = [h \in DOMAIN g.objects \ gone |-> g.objects[h]],
                 !.young_objects = @ \ gone,
                 !.old_objects = @ \ gone,
                 !.root_set = @ \ gone,
                 !.bytes_allocated = SaturatingSub(@, freed_bytes)]

(* A minor collection that sweeps without promoting the survivors. *)
minor_collect_unpromoted(g) ==
    LET Sweep(m) ==
            remove_objects(m, {h \in m.young_objects :
                                  h \in DOMAIN m.objects /\ ~m.objects[h].marked})
    IN Sweep(mark_from_roots(clear_marks(g)))

minor_collect(g) ==
    LET Sweep(p) ==                           \* p: the survivors are promoted
            remove_objects(p, {h \in p.young_objects :
                                  h \in DOMAIN p.objects /\ ~p.objects[h].marked})
        Promote(m) ==                         \* m: the marking is done
            LET promoted == {h \in m.young_objects :
                                h \in DOMAIN m.objects /\ m.objects[h].marked}
            IN Sweep([m EXCEPT !.objects =
                                   [h \in DOMAIN m.objects |->
                                       IF h \in promoted
                                       THEN [m.objects[h] EXCEPT !.generation = "Old"]
                                       ELSE m.objects[h]],
                               !.young_objects = @ \ promoted,
                               !.old_objects = @ \cup promoted])
    IN Promote(mark_from_roots(clear_marks(g)))

(* A full collection that marks on top of the marks of the cycle before. *)
full_collect_stale_marks(g) ==
    LET Sweep(m) ==
            remove_objects(m, {h \in DOMAIN m.objects : ~m.objects[h].marked})
    IN Sweep(mark_from_roots(g))

full_collect(g) ==
    LET Sweep(m) ==                           \* m: the marking is done
            remove_objects(m, {h \in DOMAIN m.objects : ~m.objects[h].marked})
    IN Sweep(mark_from_roots(clear_marks(g)))

(* A collect that never runs a full cycle. *)
collect_minor_only(g) ==
    LET initial_bytes == g.bytes_allocated
        Count(c) == [c EXCEPT !.total_collections = @ + 1,
                              !.bytes_freed = @ + (initial_bytes - c.bytes_allocated)]
    IN Count(minor_collect(g))

(* A cycle that leaves bytes_freed as it was. *)
collect_uncounted(g) ==
    LET full_collection == g.total_collections % FullCollectionPeriod = 0
        Count(c) == [c EXCEPT !.total_collections = @ + 1]
    IN Count(IF full_collection THEN full_collect(g) ELSE minor_collect(g))

(* collect: returns the collector after the cycle; CollectCount is the      *)
(* value the call returns.                                                  *)
collect(g) ==
    LET initial_bytes == g.bytes_allocated
        full_collection == g.total_collections % FullCollectionPeriod = 0
        Count(c) ==                           \* c: the cycle has run
            LET collected_bytes == initial_bytes - c.bytes_allocated
            IN [c EXCEPT !.total_collections = @ + 1,
                         !.bytes_freed = @ + collected_bytes]
    IN Count(IF full_collection THEN full_collect(g) ELSE minor_collect(g))

CollectCount(g) == Cardinality(DOMAIN g.objects) - Cardinality(DOMAIN collect(g).objects)

should_collect(g) ==
    LET young_bytes == SumSizes(g.objects, g.young_objects \cap DOMAIN g.objects)
    IN \/ young_bytes > g.young_threshold
       \/ g.total_allocations % collection_frequency = 0

(* An allocate that leaves next_handle where it was. *)
allocate_unadvanced(g, object_type) ==
    LET handle == g.next_handle
        size == calculate_object_size(object_type)
        object == [ object_type |-> object_type,
                    generation |-> "Young",
                    marked |-> FALSE,
                    size |-> size,
                    references |-> extract_references(object_type) ]
        Collected(a) == IF should_collect(a) THEN collect(a) ELSE a
    IN Collected([g EXCEPT !.objects = (handle :> object) @@ @,
                           !.young_objects = @ \cup {handle},
                           !.total_allocations = @ + 1,
                           !.bytes_allocated = @ + size])

(* allocate: AllocatedHandle is the handle the call returns. *)
AllocatedHandle(g) == g.next_handle

allocate(g, object_type) ==
    LET handle == g.next_handle
        size == calculate_object_size(object_type)
        object == [ object_type |-> object_type,
                    generation |-> "Young",
                    marked |-> FALSE,
                    size |-> size,
                    references |-> extract_references(object_type) ]
        Collected(a) == IF should_collect(a) THEN collect(a) ELSE a
    IN Collected([g EXCEPT !.next_handle = @ + 1,
                           !.objects = (handle :> object) @@ @,
                           !.young_objects = @ \cup {handle},
                           !.total_allocations = @ + 1,
                           !.bytes_allocated = @ + size])

add_root(g, handle) == [g EXCEPT !.root_set = @ \cup {handle}]

remove_root(g, handle) == [g EXCEPT !.root_set = @ \ {handle}]

UpdateSucceeds(g, handle) == handle \in DOMAIN g.objects

(* An update_object that keeps the outgoing references of the old value. *)
update_object_stale_references(g, handle, new_type) ==
    IF handle \in DOMAIN g.objects
    THEN LET old_size == g.objects[handle].size
             new_size == calculate_object_size(new_type)
         IN [g EXCEPT !.objects[handle].object_type = new_type,
                      !.objects[handle].size = new_size,
                      !.bytes_allocated = SaturatingSub(@, old_size) + new_size]
    ELSE g

(* An update_object that leaves bytes_allocated at the old size. *)
update_object_unaccounted(g, handle, new_type) ==
    IF handle \in DOMAIN g.objects
    THEN [g EXCEPT !.objects[handle].object_type = new_type,
                   !.objects[handle].size = calculate_object_size(new_type),
                   !.objects[handle].references = extract_references(new_type)]
    ELSE g

update_object(g, handle, new_type) ==
    IF handle \in DOMAIN g.objects
    THEN LET old_size == g.objects[handle].size
             new_size == calculate_object_size(new_type)
         IN [g EXCEPT !.objects[handle].object_type = new_type,
                      !.objects[handle].size = new_size,
                      !.objects[handle].references = extract_references(new_type),
                      !.bytes_allocated = SaturatingSub(@, old_size) + new_size]
    ELSE g

(* force_collect: a full collection that leaves the counters alone;        *)
(* ForceCollectCount is the value the call returns.                         *)
force_collect(g) == full_collect(g)

ForceCollectCount(g) ==
    Cardinality({h \in DOMAIN g.objects : ~mark_from_roots(clear_marks(g)).objects[h].marked})

set_thresholds(g, young_threshold, old_threshold) ==
    [g EXCEPT !.young_threshold = young_threshold,
              !.old_threshold = old_threshold]

-----------------------------------------------------------------------------
(* Syntax tree (bebion-parser/src/ast.rs).  A node is a record of one shape: *)
(* type is the AstNode variant, op its operator or kind, name its identifier *)
(* or string, num its number (a literal's value, a function's parameter      *)
(* count) and kids its children in the order of the variant's fields, a      *)
(* None child standing for an absent Option.                                 *)

Node(type, op, name, num, kids) ==
    [type |-> type, op |-> op, name |-> name, num |-> num, kids |-> kids]

None == Node("None", "", "", 0, <<>>)
IsSome(n) == n.type # "None"

Identifier(name) == Node("Identifier", "", name, 0, <<>>)
NumberLit(n) == Node("Literal", "Number", "", n, <<>>)
StringLit(s) == Node("Literal", "String", s, 0, <<>>)

(* BinaryExpression, UnaryExpression, AssignmentExpression, UpdateExpression *)
(* (op the operator), MemberExpression (op "computed" or "dotted"),          *)
(* ConditionalExpression, CallExpression (callee, then the arguments),       *)
(* ArrayExpression, ObjectExpression                                         *)
Expression(type, op, kids) == Node(type, op, "", 0, kids)

(* ExpressionStatement, BlockStatement, ReturnStatement, IfStatement,        *)
(* WhileStatement, ForStatement, BreakStatement, ContinueStatement,          *)
(* ThrowStatement, TryStatement                                              *)
Statement(type, kids) == Node(type, "", "", 0, kids)

(* FunctionDeclaration and FunctionExpression *)
Function(type, name, params, body) ==
    Node(type, "", name, Len(params), params \o <<body>>)
FunctionParams(node) == SubSeq(node.kids, 1, node.num)
FunctionBody(node) == node.kids[node.num + 1]

VariableDeclarator(name, init) == Node("VariableDeclarator", "", name, 0, <<init>>)
VariableDeclaration(kind, decls) == Node("VariableDeclaration", kind, "", 0, decls)
CatchClause(param, body) == Node("CatchClause", "", param, 0, <<body>>)
Property(key, value) == Node("Property", "", "", 0, <<key, value>>)

-----------------------------------------------------------------------------
(* Bytecode (bebion-compiler/src/bytecode.rs).  Instruction indices are      *)
(* 0-based as in the source; instructions[i] of the source is                *)
(* instructions[i + 1] of the sequence.                                      *)

Ins(op) == [op |-> op, arg |-> 0]
InsA(op, arg) == [op |-> op, arg |-> arg]

JumpOps == {"Jump", "JumpIfFalse", "JumpIfTrue"}

EmptyBytecode == [instructions |-> <<>>, constants |-> <<>>, names |-> <<>>]

(* Constant: kind, number / boolean payload, string payload or function     *)
(* name, parameter count and nested unit of a function constant.            *)
Const(kind, num, str) ==
    [kind |-> kind, num |-> num, str |-> str, param_count |-> 0,
     bytecode |-> EmptyBytecode]
ConstFunction(name, param_count, bytecode) ==
    [kind |-> "Function", num |-> 0, str |-> name, param_count |-> param_count,
     bytecode |-> bytecode]
ConstUndefined == Const("Undefined", 0, "")

BcLen(bc) == Len(bc.instructions)

emit(bc, instruction) == [bc EXCEPT !.instructions = Append(@, instruction)]

add_constant(bc, constant) == [bc EXCEPT !.constants = Append(@, constant)]

(* add_name: NameIndex is the index returned. *)
NameIndex(bc, name) ==
    IF \E i \in DOMAIN bc.names : bc.names[i] = name
    THEN (CHOOSE i \in DOMAIN bc.names :
              bc.names[i] = name /\ \A j \in 1 .. (i - 1) : bc.names[j] # name) - 1
    ELSE Len(bc.names)

(* An add_name that appends without looking the name up. *)
add_name_appending(bc, name) == [bc EXCEPT !.names = Append(@, name)]

add_name(bc, name) ==
    IF \E i \in DOMAIN bc.names : bc.names[i] = name
    THEN bc
    ELSE [bc EXCEPT !.names = Append(@, name)]

(* patch_jump panics when instructions[jump_index] does not exist or is no  *)
(* jump.                                                                    *)
PatchJumpPanics(bc, jump_index) ==
    \/ jump_index >= BcLen(bc)
    \/ bc.instructions[jump_index + 1].op \notin JumpOps

patch_jump(bc, jump_index, target_index) ==
    [bc EXCEPT !.instructions[jump_index + 1].arg = target_index - jump_index - 1]

(* optimize: one pass; at index i a LoadConstant followed by Pop is drained *)
(* and the same index is looked at again; a LoadConstant followed by Return *)
(* is rewritten to itself.                                                  *)
RemovePair(s, i) ==
    [k \in 1 .. (Len(s) - 2) |-> IF k <= i THEN s[k] ELSE s[k + 2]]

RECURSIVE OptimizeFrom(_, _)
OptimizeFrom(instructions, i) ==
    IF i >= Len(instructions) THEN instructions
    ELSE IF /\ i + 2 <= Len(instructions)
            /\ instructions[i + 1].op = "LoadConstant"
            /\ instructions[i + 2].op = "Pop"
         THEN OptimizeFrom(RemovePair(instructions, i), i)
         ELSE OptimizeFrom(instructions, i + 1)

optimize(bc) == [bc EXCEPT !.instructions = OptimizeFrom(@, 0)]

-----------------------------------------------------------------------------
(* Compiler (bebion-compiler/src/compiler.rs).  A compilation state carries *)
(* the Compiler's fields, the unit being written and the error that ended   *)
(* the compilation, if any ("panic" for a Rust panic).  Once err is set the *)
(* `?` operator has returned: no later step changes the state.              *)

NewCompiler ==
    [scopes |-> <<[variables |-> <<>>, depth |-> 0]>>, loop_stack |-> <<>>,
     function_depth |-> 0]

NewLoopInfo == [break_jumps |-> <<>>, continue_jumps |-> <<>>]

MaxLocalIndex == 256

OkSt(st) == st.err = "none"

Fail(st, e) == IF OkSt(st) THEN [st EXCEPT !.err = e] ELSE st

Em(st, instruction) ==
    IF OkSt(st) THEN [st EXCEPT !.bc = emit(@, instruction)] ELSE st

AddConst(st, constant) ==
    IF OkSt(st) THEN [st EXCEPT !.bc = add_constant(@, constant)] ELSE st

AddName(st, name) ==
    IF OkSt(st) THEN [st EXCEPT !.bc = add_name(@, name)] ELSE st

Patch(st, jump_index, target_index) ==
    IF ~OkSt(st) THEN st
    ELSE IF PatchJumpPanics(st.bc, jump_index) THEN Fail(st, "panic")
    ELSE [st EXCEPT !.bc = patch_jump(@, jump_index, target_index)]

RECURSIVE PatchAll(_, _, _)
PatchAll(st, jumps, target_index) ==
    IF jumps = <<>> THEN st
    ELSE PatchAll(Patch(st, Head(jumps), target_index), Tail(jumps), target_index)

begin_scope(st) ==
    IF ~OkSt(st) THEN st
    ELSE LET depth == IF st.scopes = <<>> THEN 0
                      ELSE st.scopes[Len(st.scopes)].depth + 1
         IN [st EXCEPT !.scopes = Append(@, [variables |-> <<>>, depth |-> depth])]

end_scope(st) ==
    IF ~OkSt(st) \/ st.scopes = <<>> THEN st
    ELSE [st EXCEPT !.scopes = SubSeq(@, 1, Len(@) - 1)]

(* declare_variable: DeclaredIndex is the index returned. *)
DeclaredIndex(st) ==
    IF st.scopes = <<>> THEN 0
    ELSE Cardinality(DOMAIN st.scopes[Len(st.scopes)].variables)

declare_variable(st, name, kind) ==
    IF ~OkSt(st) THEN st
    ELSE IF st.scopes = <<>> THEN Fail(st, "InternalError")
    ELSE LET variable == [index |-> DeclaredIndex(st), kind |-> kind]
         IN [st EXCEPT !.scopes[Len(st.scopes)].variables =
                           (name :> variable) @@ @]

(* resolve_variable: innermost scope first. *)
Resolves(st, name) ==
    \E i \in DOMAIN st.scopes : name \in DOMAIN st.scopes[i].variables

resolve_variable(st, name) ==
    LET i == CHOOSE k \in DOMAIN st.scopes :
                 /\ name \in DOMAIN st.scopes[k].variables
                 /\ \A j \in (k + 1) .. Len(st.scopes) :
                        name \notin DOMAIN st.scopes[j].variables
    IN st.scopes[i].variables[name]

compile_identifier(st, name) ==
    IF Resolves(st, name)
    THEN IF resolve_variable(st, name).index < MaxLocalIndex
         THEN Em(st, InsA("LoadLocal", resolve_variable(st, name).index))
         ELSE Fail(st, "InternalError")
    ELSE Em(AddName(st, name), InsA("LoadGlobal", NameIndex(st.bc, name)))

PushLoop(st) ==
    IF OkSt(st) THEN [st EXCEPT !.loop_stack = Append(@, NewLoopInfo)] ELSE st

PopLoop(st) ==
    IF ~OkSt(st) \/ st.loop_stack = <<>> THEN st
    ELSE [st EXCEPT !.loop_stack = SubSeq(@, 1, Len(@) - 1)]

TopLoop(st) ==
    IF st.loop_stack = <<>> THEN NewLoopInfo ELSE st.loop_stack[Len(st.loop_stack)]

BinaryInstruction(operator) ==
    CASE operator = "Sub" -> "Subtract"
      [] operator = "Mul" -> "Multiply"
      [] operator = "Div" -> "Divide"
      [] operator = "Mod" -> "Modulo"
      [] operator = "Pow" -> "Power"
      [] operator \in {"Add", "Equal", "NotEqual", "StrictEqual", "StrictNotEqual",
                       "Less", "Greater", "LessEqual", "GreaterEqual",
                       "LogicalAnd", "LogicalOr", "BitwiseAnd", "BitwiseOr",
                       "BitwiseXor", "LeftShift", "RightShift",
                       "UnsignedRightShift"} -> operator
      [] OTHER -> "Unsupported"

UnaryInstruction(operator) ==
    CASE operator = "Plus" -> "UnaryPlus"
      [] operator = "Minus" -> "UnaryMinus"
      [] operator = "Not" -> "LogicalNot"
      [] operator = "BitwiseNot" -> "BitwiseNot"
      [] operator = "TypeOf" -> "TypeOf"
      [] OTHER -> "Unsupported"

CompoundInstruction(operator) ==
    CASE operator = "AddAssign" -> "Add"
      [] operator = "SubAssign" -> "Subtract"
      [] operator = "MulAssign" -> "Multiply"
      [] operator = "DivAssign" -> "Divide"
      [] operator = "ModAssign" -> "Modulo"
      [] operator = "PowAssign" -> "Power"
      [] OTHER -> "Unsupported"

LiteralConstant(expr) ==
    CASE expr.op = "String" -> Const("String", 0, expr.name)
      [] expr.op = "Number" -> Const("Number", expr.num, "")
      [] expr.op = "Boolean" -> Const("Boolean", expr.num, "")
      [] expr.op = "Null" -> Const("Null", 0, "")
      [] expr.op = "Undefined" -> ConstUndefined
      [] OTHER -> Const("String", 0, expr.name)

(* emit LoadConstant of a constant just added *)
LoadNewConstant(st, constant) ==
    Em(AddConst(st, constant), InsA("LoadConstant", Len(st.bc.constants)))

RECURSIVE compile_statement(_, _)
RECURSIVE compile_expression(_, _)
RECURSIVE compile_statements(_, _)
RECURSIVE compile_expressions(_, _)
RECURSIVE compile_elements(_, _)
RECURSIVE compile_properties(_, _)
RECURSIVE compile_declarators(_, _, _)
RECURSIVE declare_params(_, _)
RECURSIVE compile_function_body(_, _, _)
RECURSIVE compile_assignment_target(_, _)

compile_statements(stmts, st) ==
    IF stmts = <<>> \/ ~OkSt(st) THEN st
    ELSE compile_statements(Tail(stmts), compile_statement(Head(stmts), st))

compile_expressions(exprs, st) ==
    IF exprs = <<>> \/ ~OkSt(st) THEN st
    ELSE compile_expressions(Tail(exprs), compile_expression(Head(exprs), st))

compile_elements(elements, st) ==
    IF elements = <<>> \/ ~OkSt(st) THEN st
    ELSE compile_elements(Tail(elements),
            IF IsSome(Head(elements))
            THEN compile_expression(Head(elements), st)
            ELSE LoadNewConstant(st, ConstUndefined))

compile_properties(properties, st) ==
    IF properties = <<>> \/ ~OkSt(st) THEN st
    ELSE LET p == Head(properties)
             s1 == Em(st, Ins("Duplicate"))
             s2 == compile_expression(p.kids[1], s1)
             s3 == compile_expression(p.kids[2], s2)
         IN compile_properties(Tail(properties), Em(s3, Ins("SetProperty")))

compile_assignment_target(target, st) ==
    IF ~OkSt(st) THEN st
    ELSE CASE target.type = "Identifier" ->
                IF Resolves(st, target.name)
                THEN Em(st, InsA("StoreLocal", resolve_variable(st, target.name).index))
                ELSE Em(AddName(st, target.name),
                        InsA("StoreGlobal", NameIndex(st.bc, target.name)))
           [] target.type = "MemberExpression" ->
                LET s1 == compile_expression(target.kids[1], st)
                    s2 == compile_expression(target.kids[2], s1)
                IN Em(s2, Ins(IF target.op = "computed" THEN "SetElement"
                                                        ELSE "SetProperty"))
           [] OTHER -> Fail(st, "InvalidSyntax")

compile_variable_declarator(decl, kind, st) ==
    LET instruction == CASE kind = "Var" -> "DeclareVar"
                         [] kind = "Let" -> "DeclareLet"
                         [] OTHER -> "DeclareConst"
        Declare(s1) ==                        \* s1: the init is compiled
            Em(declare_variable(s1, decl.name, kind),
               InsA(instruction, DeclaredIndex(s1)))
    IN Declare(IF IsSome(decl.kids[1])
               THEN compile_expression(decl.kids[1], st)
               ELSE LoadNewConstant(st, ConstUndefined))

compile_declarators(decls, kind, st) ==
    IF decls = <<>> \/ ~OkSt(st) THEN st
    ELSE compile_declarators(Tail(decls), kind,
                             compile_variable_declarator(Head(decls), kind, st))

declare_params(params, st) ==
    IF params = <<>> \/ ~OkSt(st) THEN st
    ELSE declare_params(Tail(params), declare_variable(st, Head(params).name, "Var"))

(* compile_function_body: the state returned carries the function's unit in *)
(* bc; the caller goes on writing its own unit.                             *)
compile_function_body(params, body, st) ==
    IF ~OkSt(st) THEN st
    ELSE LET s1 == begin_scope([st EXCEPT !.function_depth = @ + 1,
                                          !.bc = EmptyBytecode])
             s2 == declare_params(params, s1)
             s3 == compile_statement(body, s2)
             s4 == Em(LoadNewConstant(s3, ConstUndefined), Ins("Return"))
             Leave(s5) ==
                 IF OkSt(s5) THEN [s5 EXCEPT !.function_depth = @ - 1] ELSE s5
         IN Leave(end_scope(s4))

compile_function_expression(node, st) ==
    LET Load(f) ==                            \* f: the body is compiled
            LoadNewConstant([f EXCEPT !.bc = st.bc],
                            ConstFunction(node.name, node.num, f.bc))
    IN Load(compile_function_body(FunctionParams(node), FunctionBody(node), st))

compile_function_declaration(node, st) ==
    LET Store(s1) ==                          \* s1: the function is loaded
            IF node.name # ""
            THEN declare_variable(
                     Em(AddName(s1, node.name),
                        InsA("StoreGlobal", NameIndex(s1.bc, node.name))),
                     node.name, "Var")
            ELSE s1
        Load(f) ==                            \* f: the body is compiled
            Store(LoadNewConstant([f EXCEPT !.bc = st.bc],
                                  ConstFunction(node.name, node.num, f.bc)))
    IN Load(compile_function_body(FunctionParams(node), FunctionBody(node), st))

compile_if_statement(test, consequent, alternate, st) ==
    LET Branches(s1) ==                       \* s1: the test is compiled
            LET else_jump == BcLen(s1.bc)
                Alternate(s3) ==              \* s3: the consequent is compiled
                    IF IsSome(alternate)
                    THEN LET end_jump == BcLen(s3.bc)
                             s4 == Em(s3, InsA("Jump", 0))
                             End(s6) == Patch(s6, end_jump, BcLen(s6.bc))
                         IN End(compile_statement(alternate,
                                    Patch(s4, else_jump, BcLen(s4.bc))))
                    ELSE Patch(s3, else_jump, BcLen(s3.bc))
            IN Alternate(compile_statement(consequent,
                             Em(s1, InsA("JumpIfFalse", 0))))
    IN Branches(compile_expression(test, st))

(* The loops of the top-level unit as the compiler laid them out: the jumps *)
(* it patched for break and continue and the two indices it patched them   *)
(* to.  The log is no field of the Compiler; it is kept for the properties. *)
LogLoop(st, loop_info, break_target, continue_target) ==
    IF OkSt(st) /\ st.function_depth = 0
    THEN [st EXCEPT !.loops = Append(@,
             [break_jumps |-> loop_info.break_jumps,
              continue_jumps |-> loop_info.continue_jumps,
              break_target |-> break_target,
              continue_target |-> continue_target])]
    ELSE st

(* The end of a loop: the jump back to loop_start, the exit jump patched  *)
(* (patch_exit: the loop has a test), the LoopInfo popped and its break   *)
(* and continue jumps patched.  s: the body (and the update) is compiled. *)
close_loop(s, loop_start, patch_exit, exit_jump, continue_target) ==
    LET s1 == Em(s, InsA("Jump", loop_start - BcLen(s.bc) - 1))
        break_target == BcLen(s1.bc)
        s2 == IF patch_exit THEN Patch(s1, exit_jump, break_target) ELSE s1
        loop_info == TopLoop(s2)
        s3 == PatchAll(PopLoop(s2), loop_info.break_jumps, break_target)
        s4 == PatchAll(s3, loop_info.continue_jumps, continue_target)
    IN [state |-> s4, loop_info |-> loop_info, break_target |-> break_target]

compile_while_statement(test, body, st) ==
    LET loop_start == BcLen(st.bc)
        Body(s2) ==                           \* s2: the test is compiled
            LET exit_jump == BcLen(s2.bc)
                Close(s4) ==                  \* s4: the body is compiled
                    LET continue_target == BcLen(s4.bc)
                        c == close_loop(s4, loop_start, TRUE, exit_jump,
                                        continue_target)
                    IN LogLoop(c.state, c.loop_info, c.break_target,
                               continue_target)
            IN Close(compile_statement(body, Em(s2, InsA("JumpIfFalse", 0))))
    IN Body(compile_expression(test, PushLoop(st)))

compile_for_statement(init, test, update, body, st) ==
    LET Loop(s1) ==                           \* s1: the init is compiled
            LET loop_start == BcLen(s1.bc)
                Body(s3) ==                   \* s3: the test is compiled
                    LET exit_jump == BcLen(s3.bc) - 1
                        Update(s4) ==         \* s4: the body is compiled
                            LET continue_target == BcLen(s4.bc)
                                Close(s5) ==  \* s5: the update is compiled
                                    LET c == close_loop(s5, loop_start,
                                                 IsSome(test), exit_jump,
                                                 continue_target)
                                    IN LogLoop(end_scope(c.state), c.loop_info,
                                               c.break_target, continue_target)
                            IN Close(IF IsSome(update)
                                     THEN Em(compile_expression(update, s4),
                                             Ins("Pop"))
                                     ELSE s4)
                    IN Update(compile_statement(body, s3))
            IN Body(IF IsSome(test)
                    THEN Em(compile_expression(test, PushLoop(s1)),
                            InsA("JumpIfFalse", 0))
                    ELSE PushLoop(s1))
    IN Loop(IF IsSome(init) THEN compile_statement(init, begin_scope(st))
            ELSE begin_scope(st))

compile_try_statement(block, handler, finalizer, st) ==
    LET try_begin == BcLen(st.bc)
        s1 == Em(st, InsA("TryBegin", 0))
        s2 == compile_statement(block, s1)
        s3 == Em(s2, Ins("TryEnd"))
        try_end_jump == BcLen(s3.bc)
        s4 == Em(s3, InsA("Jump", 0))
        catch_start == BcLen(s4.bc)
        s5 == Patch(s4, try_begin, catch_start)
        s6 == IF IsSome(handler)
              THEN LET c1 == Em(s5, Ins("CatchBegin"))
                       c2 == IF handler.name # ""
                             THEN Em(declare_variable(c1, handler.name, "Let"),
                                     InsA("StoreLocal", DeclaredIndex(c1)))
                             ELSE c1
                       c3 == compile_statement(handler.kids[1], c2)
                   IN Em(c3, Ins("CatchEnd"))
              ELSE s5
        catch_end == BcLen(s6.bc)
        s7 == Patch(s6, try_end_jump, catch_end)
    IN IF IsSome(finalizer)
       THEN Em(compile_statement(finalizer, Em(s7, Ins("FinallyBegin"))),
               Ins("FinallyEnd"))
       ELSE s7

compile_statement(stmt, st) ==
    IF ~OkSt(st) THEN st
    ELSE CASE stmt.type = "ExpressionStatement" ->
                Em(compile_expression(stmt.kids[1], st), Ins("Pop"))
           [] stmt.type = "VariableDeclaration" ->
                compile_declarators(stmt.kids, stmt.op, st)
           [] stmt.type = "FunctionDeclaration" ->
                compile_function_declaration(stmt, st)
           [] stmt.type = "BlockStatement" ->
                end_scope(compile_statements(stmt.kids, begin_scope(st)))
           [] stmt.type = "IfStatement" ->
                compile_if_statement(stmt.kids[1], stmt.kids[2], stmt.kids[3], st)
           [] stmt.type = "WhileStatement" ->
                compile_while_statement(stmt.kids[1], stmt.kids[2], st)
           [] stmt.type = "ForStatement" ->
                compile_for_statement(stmt.kids[1], stmt.kids[2], stmt.kids[3],
                                      stmt.kids[4], st)
           [] stmt.type = "ReturnStatement" ->
                Em(IF IsSome(stmt.kids[1])
                   THEN compile_expression(stmt.kids[1], st)
                   ELSE LoadNewConstant(st, ConstUndefined),
                   Ins("Return"))
           [] stmt.type = "BreakStatement" ->
                IF st.loop_stack # <<>>
                THEN [Em(st, InsA("Jump", 0)) EXCEPT
                         !.loop_stack[Len(st.loop_stack)].break_jumps =
                             Append(@, BcLen(st.bc))]
                ELSE Fail(st, "InvalidSyntax")
           [] stmt.type = "ContinueStatement" ->
                IF st.loop_stack # <<>>
                THEN [Em(st, InsA("Jump", 0)) EXCEPT
                         !.loop_stack[Len(st.loop_stack)].continue_jumps =
                             Append(@, BcLen(st.bc))]
                ELSE Fail(st, "InvalidSyntax")
           [] stmt.type = "ThrowStatement" ->
                Em(compile_expression(stmt.kids[1], st), Ins("Throw"))
           [] stmt.type = "TryStatement" ->
                compile_try_statement(stmt.kids[1], stmt.kids[2], stmt.kids[3], st)
           [] OTHER -> Fail(st, "UnsupportedFeature")

compile_expression(expr, st) ==
    IF ~OkSt(st) THEN st
    ELSE CASE expr.type = "Identifier" -> compile_identifier(st, expr.name)
           [] expr.type = "Literal" -> LoadNewConstant(st, LiteralConstant(expr))
           [] expr.type = "BinaryExpression" ->
                LET s1 == compile_expression(expr.kids[1], st)
                    s2 == compile_expression(expr.kids[2], s1)
                IN IF BinaryInstruction(expr.op) = "Unsupported"
                   THEN Fail(s2, "UnsupportedFeature")
                   ELSE Em(s2, Ins(BinaryInstruction(expr.op)))
           [] expr.type = "UnaryExpression" ->
                LET s1 == compile_expression(expr.kids[1], st)
                IN IF UnaryInstruction(expr.op) = "Unsupported"
                   THEN Fail(s1, "UnsupportedFeature")
                   ELSE Em(s1, Ins(UnaryInstruction(expr.op)))
           [] expr.type = "AssignmentExpression" ->
                IF expr.op = "Assign"
                THEN compile_assignment_target(expr.kids[1],
                         compile_expression(expr.kids[2], st))
                ELSE LET s1 == compile_expression(expr.kids[1], st)
                         s2 == compile_expression(expr.kids[2], s1)
                     IN IF CompoundInstruction(expr.op) = "Unsupported"
                        THEN Fail(s2, "UnsupportedFeature")
                        ELSE compile_assignment_target(expr.kids[1],
                                 Em(s2, Ins(CompoundInstruction(expr.op))))
           [] expr.type = "CallExpression" ->
                Em(compile_expressions(expr.kids, st),
                   InsA("Call", Len(expr.kids) - 1))
           [] expr.type = "MemberExpression" ->
                LET s1 == compile_expression(expr.kids[1], st)
                    s2 == compile_expression(expr.kids[2], s1)
                IN Em(s2, Ins(IF expr.op = "computed" THEN "GetElement"
                                                      ELSE "GetProperty"))
           [] expr.type = "ArrayExpression" ->
                Em(compile_elements(expr.kids, st), InsA("NewArray", Len(expr.kids)))
           [] expr.type = "ObjectExpression" ->
                compile_properties(expr.kids, Em(st, Ins("NewObject")))
           [] expr.type = "FunctionExpression" ->
                compile_function_expression(expr, st)
           [] expr.type = "ConditionalExpression" ->
                LET s1 == compile_expression(expr.kids[1], st)
                    else_jump == BcLen(s1.bc)
                    s2 == Em(s1, InsA("JumpIfFalse", 0))
                    s3 == compile_expression(expr.kids[2], s2)
                    end_jump == BcLen(s3.bc)
                    s4 == Em(s3, InsA("Jump", 0))
                    s5 == Patch(s4, else_jump, BcLen(s4.bc))
                    s6 == compile_expression(expr.kids[3], s5)
                IN Patch(s6, end_jump, BcLen(s6.bc))
           [] OTHER -> Fail(st, "UnsupportedFeature")

(* compile: Lowered is the state after the statements and the final Halt,   *)
(* before the optimizer runs; compile returns the optimized unit, or the    *)
(* error.  The Compiler keeps scopes, loop_stack and function_depth.        *)
Lowered(this, program) ==
    Em(compile_statements(program,
           [scopes |-> this.scopes, loop_stack |-> this.loop_stack,
            function_depth |-> this.function_depth,
            bc |-> EmptyBytecode, err |-> "none", loops |-> <<>>]),
       Ins("Halt"))

compile(this, program) ==
    LET Unit(s) ==
            [err |-> s.err,
             bytecode |-> IF OkSt(s) THEN optimize(s.bc) ELSE EmptyBytecode,
             lowered |-> IF OkSt(s) THEN s.bc ELSE EmptyBytecode,
             loops |-> IF OkSt(s) THEN s.loops ELSE <<>>,
             compiler |-> [scopes |-> s.scopes, loop_stack |-> s.loop_stack,
                           function_depth |-> s.function_depth]]
    IN Unit(Lowered(this, program))

-----------------------------------------------------------------------------
(* Values (bebion-runtime/src/value.rs).  A Value is a record of one shape: *)
(* the variant, its numeric payload (number, boolean as 0/1, object handle) *)
(* and its string payload.  Numbers are the integers; s = "NaN" marks the   *)
(* NaN and s = "Float" a float that is no integer (not tracked further).    *)
(* VError(msg) is the Err(TypeError(msg)) a conversion returns.             *)

VNum(n) == [t |-> "Number", n |-> n, s |-> ""]
VNaN == [t |-> "Number", n |-> 0, s |-> "NaN"]
VFloat == [t |-> "Number", n |-> 0, s |-> "Float"]
VStr(s) == [t |-> "String", n |-> 0, s |-> s]
VBool(b) == [t |-> "Boolean", n |-> IF b THEN 1 ELSE 0, s |-> ""]
VNull == [t |-> "Null", n |-> 0, s |-> ""]
VUndefined == [t |-> "Undefined", n |-> 0, s |-> ""]
VObject(handle) == [t |-> "Object", n |-> handle, s |-> ""]
VError(msg) == [t |-> "Error", n |-> 0, s |-> msg]

IsInt(v) == v.t = "Number" /\ v.s = ""

to_boolean(v) ==
    CASE v.t = "Boolean" -> v.n = 1
      [] v.t = "Number" -> ~(v.s = "NaN") /\ ~(v.s = "" /\ v.n = 0)
      [] v.t = "String" -> v.s # ""
      [] v.t \in {"Null", "Undefined"} -> FALSE
      [] OTHER -> TRUE

(* to_number; str::parse::<f64> is modelled on the one-digit decimal        *)
(* strings, every other string failing to parse.                            *)
to_number(v) ==
    CASE v.t = "Number" -> v
      [] v.t = "Boolean" -> VNum(v.n)
      [] v.t = "String" ->
            LET digits == {n \in 0 .. 9 : ToString(n) = v.s}
            IN IF digits # {} THEN VNum(CHOOSE n \in digits : TRUE)
               ELSE VError("Cannot convert string '" \o v.s \o "' to number")
      [] v.t = "Null" -> VNum(0)
      [] v.t = "Undefined" -> VNaN
      [] OTHER -> VError("Cannot convert object to number")

to_string(v) ==
    CASE v.t = "Number" -> IF v.s = "" THEN ToString(v.n) ELSE v.s
      [] v.t = "String" -> v.s
      [] v.t = "Boolean" -> IF v.n = 1 THEN "true" ELSE "false"
      [] v.t = "Null" -> "null"
      [] v.t = "Undefined" -> "undefined"
      [] OTHER -> "[object Object]"

strict_equals(a, b) ==
    CASE a.t = "Number" /\ b.t = "Number" -> IsInt(a) /\ IsInt(b) /\ a.n = b.n
      [] a.t = "String" /\ b.t = "String" -> a.s = b.s
      [] a.t = "Boolean" /\ b.t = "Boolean" -> a.n = b.n
      [] a.t = "Null" /\ b.t = "Null" -> TRUE
      [] a.t = "Undefined" /\ b.t = "Undefined" -> TRUE
      [] a.t = "Object" /\ b.t = "Object" -> a.n = b.n
      [] OTHER -> FALSE

RECURSIVE loose_equals(_, _)
loose_equals(a, b) ==
    CASE a.t = b.t -> strict_equals(a, b)
      [] {a.t, b.t} = {"Null", "Undefined"} -> TRUE
      [] {a.t, b.t} = {"Number", "String"} ->
            strict_equals(to_number(a), to_number(b))
      [] a.t = "Boolean" -> loose_equals(VNum(a.n), b)
      [] b.t = "Boolean" -> loose_equals(VNum(b.n), a)
      [] OTHER -> FALSE

(* f64 arithmetic and comparison on the numbers the model tracks *)
NumArith(op, a, b) ==
    LET abs(n) == IF n < 0 THEN 0 - n ELSE n
        sign(n) == IF n < 0 THEN 0 - 1 ELSE 1
    IN IF op \in {"Less", "Greater", "LessEqual", "GreaterEqual"}
       THEN VBool(/\ IsInt(a) /\ IsInt(b)
                  /\ CASE op = "Less" -> a.n < b.n
                       [] op = "Greater" -> a.n > b.n
                       [] op = "LessEqual" -> a.n <= b.n
                       [] OTHER -> a.n >= b.n)
       ELSE IF a.s = "NaN" \/ b.s = "NaN" THEN VNaN
       ELSE IF a.s = "Float" \/ b.s = "Float" THEN VFloat
       ELSE CASE op = "Add" -> VNum(a.n + b.n)
              [] op = "Subtract" -> VNum(a.n - b.n)
              [] op = "Multiply" -> VNum(a.n * b.n)
              [] op = "Divide" ->
                   IF b.n = 0 THEN (IF a.n = 0 THEN VNaN ELSE VFloat)
                   ELSE IF abs(a.n) % abs(b.n) = 0
                        THEN VNum(sign(a.n) * sign(b.n) * (abs(a.n) \div abs(b.n)))
                        ELSE VFloat
              [] op = "Modulo" ->
                   IF b.n = 0 THEN VNaN
                   ELSE VNum(sign(a.n) * (abs(a.n) % abs(b.n)))
              [] OTHER ->
                   IF b.n >= 0 /\ b.n <= 8 /\ abs(a.n) <= 8 THEN VNum(a.n ^ b.n)
                   ELSE VFloat

(* subtract_values .. power_values, and the to_number pair of the           *)
(* comparison instructions: left.to_number()?, right.to_number()?, result.  *)
arith_values(op, left, right) ==
    LET a == to_number(left)
        b == to_number(right)
    IN IF a.t = "Error" THEN a
       ELSE IF b.t = "Error" THEN b
       ELSE NumArith(op, a, b)

add_values(left, right) ==
    IF left.t = "Number" /\ right.t = "Number" THEN NumArith("Add", left, right)
    ELSE IF left.t = "String" \/ right.t = "String"
         THEN VStr(to_string(left) \o to_string(right))
    ELSE arith_values("Add", left, right)

-----------------------------------------------------------------------------
(* Virtual machine (bebion-runtime/src/vm.rs).  A machine is the            *)
(* VirtualMachine's stack, call_stack and globals together with the shared  *)
(* collector and the value run_interpreter_loop has returned, if any.       *)

max_stack_size == 10000
max_call_depth == 1000

(* What run_interpreter_loop returned: Ok(value) or Err(kind(msg)).  The    *)
(* fields via, base and depth are no part of the value: they note the arm   *)
(* that returned ("Halt", "End" of bytecode, "Return", "Error"), the base   *)
(* offset of the frame and the depth of the stack at that moment.           *)
NoResult ==
    [status |-> "none", value |-> VUndefined, kind |-> "", msg |-> "",
     via |-> "", base |-> 0, depth |-> 0]

(* VirtualMachine::new.  jumped_out notes that a taken jump has set pc to   *)
(* an index outside the instructions.  gc_lock is the state of the Mutex in *)
(* the collector handle self.gc, which the Runtime shares: "free", "held"   *)
(* by a MutexGuard of this thread, or "deadlock" once the thread has called *)
(* lock() while it held the guard.                                          *)
NewVM ==
    [stack |-> <<>>, call_stack |-> <<>>, globals |-> <<>>,
     result |-> NoResult, jumped_out |-> FALSE, gc_lock |-> "free"]

(* A machine is the VirtualMachine together with the collector it shares. *)
Machine(v, g) ==
    [stack |-> v.stack, call_stack |-> v.call_stack, globals |-> v.globals,
     result |-> v.result, jumped_out |-> v.jumped_out, gc_lock |-> v.gc_lock,
     gc |-> g]

VmOf(m) ==
    [stack |-> m.stack, call_stack |-> m.call_stack, globals |-> m.globals,
     result |-> m.result, jumped_out |-> m.jumped_out, gc_lock |-> m.gc_lock]

Returned(m) == m.result.status # "none"

TopFrame(m) == m.call_stack[Len(m.call_stack)]

RetOk(m, value, via) ==
    [m EXCEPT !.result = [status |-> "ok", value |-> value, kind |-> "",
                          msg |-> "", via |-> via,
                          base |-> TopFrame(m).base_stack_offset,
                          depth |-> Len(m.stack)]]

RetErr(m, kind, msg) ==
    [m EXCEPT !.result = [status |-> "err", value |-> VUndefined, kind |-> kind,
                          msg |-> msg, via |-> "Error",
                          base |-> IF m.call_stack = <<>> THEN 0
                                   ELSE TopFrame(m).base_stack_offset,
                          depth |-> Len(m.stack)]]

(* Ok(self.stack.pop().unwrap_or(Value::Undefined)) *)
RetPopOrUndefined(m, via) ==
    IF m.stack = <<>>
    THEN RetOk(m, VUndefined, via)
    ELSE [RetOk(m, m.stack[Len(m.stack)], via) EXCEPT
             !.stack = SubSeq(@, 1, Len(@) - 1)]

(* push_stack_unchecked is a push_stack without the test of the limit.      *)
(* push_stack / pop_stack / peek_stack: a machine that has Returned carries *)
(* the error of the `?` that ended the instruction.                         *)
push_stack_unchecked(m, value) ==
    IF Returned(m) THEN m ELSE [m EXCEPT !.stack = Append(@, value)]

push_stack(m, value) ==
    IF Returned(m) THEN m
    ELSE IF Len(m.stack) >= max_stack_size THEN RetErr(m, "StackOverflow", "")
    ELSE [m EXCEPT !.stack = Append(@, value)]

Popped(m) == m.stack[Len(m.stack)]

pop_stack(m) ==
    IF Returned(m) THEN m
    ELSE IF m.stack = <<>> THEN RetErr(m, "InvalidOperation", "Stack underflow")
    ELSE [m EXCEPT !.stack = SubSeq(@, 1, Len(@) - 1)]

AdvancePc(m) ==
    IF Returned(m) THEN m
    ELSE [m EXCEPT !.call_stack[Len(m.call_stack)].pc = @ + 1]

(* frame.pc = ((frame.pc as isize) + offset + 1) as usize.  A negative sum  *)
(* t wraps to the usize 2^64 + t, which the model writes as t itself: a     *)
(* negative pc is a pc beyond every instruction.                            *)
JumpTo(m, offset) ==
    IF Returned(m) THEN m
    ELSE LET target == TopFrame(m).pc + offset + 1
             len == Len(TopFrame(m).bytecode.instructions)
         IN [m EXCEPT !.call_stack[Len(m.call_stack)].pc = target,
                      !.jumped_out = @ \/ target < 0 \/ target >= len]

(* the binary instructions: right = pop?, left = pop?, result = f?, push *)
BinaryOp(m, op) ==
    LET m1 == pop_stack(m)
        m2 == pop_stack(m1)
    IN IF Returned(m2) THEN m2
       ELSE LET right == Popped(m)
                left == Popped(m1)
                result ==
                  CASE op = "Add" -> add_values(left, right)
                    [] op = "Equal" -> VBool(loose_equals(left, right))
                    [] op = "StrictEqual" -> VBool(strict_equals(left, right))
                    [] op = "LogicalAnd" -> IF to_boolean(left) THEN right ELSE left
                    [] op = "LogicalOr" -> IF to_boolean(left) THEN left ELSE right
                    [] OTHER -> arith_values(op, left, right)
                Push(v) == IF v.t = "Error" THEN RetErr(m2, "TypeError", v.s)
                           ELSE AdvancePc(push_stack(m2, v))
            IN Push(result)

BinaryOps ==
    {"Add", "Subtract", "Multiply", "Divide", "Modulo", "Power", "Equal",
     "StrictEqual", "Less", "Greater", "LessEqual", "GreaterEqual",
     "LogicalAnd", "LogicalOr"}

(* constant_to_value: a function constant is materialised as a heap object. *)
constant_to_value(m, constant) ==
    CASE constant.kind = "Number" -> VNum(constant.num)
      [] constant.kind = "String" -> VStr(constant.str)
      [] constant.kind = "Boolean" -> VBool(constant.num = 1)
      [] constant.kind = "Null" -> VNull
      [] constant.kind = "Undefined" -> VUndefined
      [] OTHER -> VObject(AllocatedHandle(m.gc))

(* self.gc.lock().unwrap(): the Mutex of std is not reentrant, a thread that *)
(* locks it while holding its guard never gets it.                          *)
lock(m) ==
    [m EXCEPT !.gc_lock = IF @ = "free" THEN "held" ELSE "deadlock"]

Blocked(m) == m.gc_lock = "deadlock"

(* A MutexGuard that is never dropped. *)
drop_guard_leaked(m) == m

(* The MutexGuard goes out of scope: at the end of its block or when the   *)
(* function returns, with Ok or with Err.                                   *)
drop_guard(m) ==
    [m EXCEPT !.gc_lock = IF @ = "held" THEN "free" ELSE @]

(* { let mut gc = self.gc.lock().unwrap(); gc.allocate_..(..) } *)
lock_and_allocate(m, object_type) ==
    LET Locked(m1) ==
            IF Blocked(m1) THEN m1
            ELSE drop_guard([m1 EXCEPT !.gc = allocate(@, object_type)])
    IN Locked(lock(m))

(* handle_function_call: pops the arguments and the callee, then fails;    *)
(* the guard it takes to look the callee up is dropped by the return.      *)
RECURSIVE PopN(_, _)
PopN(m, n) == IF n = 0 \/ Returned(m) THEN m ELSE PopN(pop_stack(m), n - 1)

handle_function_call(m, arg_count) ==
    LET m1 == PopN(m, arg_count)
        m2 == pop_stack(m1)
    IN IF Returned(m2) THEN m2
       ELSE LET function == Popped(m1)
                Lookup(m3) ==                 \* m3: the guard is taken
                    IF Blocked(m3) THEN m3
                    ELSE IF /\ function.n \in Live(m.gc)
                            /\ m.gc.objects[function.n].object_type.kind = "Function"
                    THEN drop_guard(RetErr(m3, "InvalidOperation",
                                           "Function calls not fully implemented"))
                    ELSE drop_guard(RetErr(m3, "TypeError", "Not a function"))
            IN IF function.t = "Object"
               THEN Lookup(lock(m2))
               ELSE RetErr(m2, "TypeError", "Not a function")

(* NewArray: pops size values, each of which must be an object handle. *)
RECURSIVE PopElements(_, _, _)
PopElements(m, n, elements) ==
    IF n = 0 \/ Returned(m) THEN [m |-> m, elements |-> elements]
    ELSE LET m1 == pop_stack(m)
         IN IF Returned(m1) THEN [m |-> m1, elements |-> elements]
            ELSE IF Popped(m).t = "Object"
                 THEN PopElements(m1, n - 1, <<Popped(m).n>> \o elements)
                 ELSE [m |-> RetErr(m1, "TypeError", "Array elements must be objects"),
                       elements |-> elements]

StoreLocalInto(locals, idx, value) ==
    [i \in 1 .. Max(Len(locals), idx + 1) |->
        IF i = idx + 1 THEN value
        ELSE IF i <= Len(locals) THEN locals[i] ELSE VUndefined]

(* One iteration of the loop of run_interpreter_loop. *)
Step(m) ==
    IF m.call_stack = <<>> THEN RetErr(m, "InvalidOperation", "No call frame")
    ELSE IF \/ TopFrame(m).pc < 0
            \/ TopFrame(m).pc >= Len(TopFrame(m).bytecode.instructions)
         THEN RetPopOrUndefined(m, "End")
    ELSE
    LET frame == TopFrame(m)
        top == Len(m.call_stack)
        instruction == frame.bytecode.instructions[frame.pc + 1]
        op == instruction.op
        arg == instruction.arg
        Limits(after) ==
            IF Returned(after) THEN after
            ELSE IF Len(after.stack) > max_stack_size
                 THEN RetErr(after, "StackOverflow", "")
            ELSE IF Len(after.call_stack) > max_call_depth
                 THEN RetErr(after, "StackOverflow", "")
            ELSE after
    IN Limits(
          CASE op = "LoadConstant" ->
                 IF arg >= Len(frame.bytecode.constants)
                 THEN RetErr(m, "InvalidBytecode", "Invalid constant index")
                 ELSE LET constant == frame.bytecode.constants[arg + 1]
                          value == constant_to_value(m, constant)
                          m1 == IF constant.kind = "Function"
                                THEN lock_and_allocate(m, FunctionObj)
                                ELSE m
                      IN IF Blocked(m1) THEN m1
                         ELSE AdvancePc(push_stack(m1, value))
            [] op = "LoadGlobal" ->
                 IF arg >= Len(frame.bytecode.names)
                 THEN RetErr(m, "InvalidBytecode", "Invalid name index")
                 ELSE LET name == frame.bytecode.names[arg + 1]
                      IN AdvancePc(push_stack(m,
                            IF name \in DOMAIN m.globals THEN m.globals[name]
                                                         ELSE VUndefined))
            [] op = "StoreGlobal" ->
                 IF arg >= Len(frame.bytecode.names)
                 THEN RetErr(m, "InvalidBytecode", "Invalid name index")
                 ELSE LET name == frame.bytecode.names[arg + 1]
                          m1 == pop_stack(m)
                      IN IF Returned(m1) THEN m1
                         ELSE AdvancePc([m1 EXCEPT !.globals =
                                            (name :> Popped(m)) @@ @])
            [] op = "LoadLocal" ->
                 AdvancePc(push_stack(m,
                     IF arg < Len(frame.locals) THEN frame.locals[arg + 1]
                                                ELSE VUndefined))
            [] op = "StoreLocal" ->
                 LET m1 == pop_stack(m)
                 IN IF Returned(m1) THEN m1
                    ELSE AdvancePc([m1 EXCEPT !.call_stack[top].locals =
                                       StoreLocalInto(@, arg, Popped(m))])
            [] op \in BinaryOps -> BinaryOp(m, op)
            [] op = "LogicalNot" ->
                 LET m1 == pop_stack(m)
                 IN AdvancePc(push_stack(m1, VBool(~to_boolean(Popped(m)))))
            [] op = "Jump" -> JumpTo(m, arg)
            [] op = "JumpIfFalse" ->
                 LET m1 == pop_stack(m)
                 IN IF Returned(m1) THEN m1
                    ELSE IF ~to_boolean(Popped(m)) THEN JumpTo(m1, arg)
                    ELSE AdvancePc(m1)
            [] op = "JumpIfTrue" ->
                 LET m1 == pop_stack(m)
                 IN IF Returned(m1) THEN m1
                    ELSE IF to_boolean(Popped(m)) THEN JumpTo(m1, arg)
                    ELSE AdvancePc(m1)
            [] op = "Call" -> handle_function_call(m, arg)
            [] op = "Return" ->
                 LET return_value == IF m.stack = <<>> THEN VUndefined ELSE Popped(m)
                     rest == IF m.stack = <<>> THEN 0 ELSE Len(m.stack) - 1
                     keep == IF rest < frame.base_stack_offset
                             THEN rest ELSE frame.base_stack_offset
                     m1 == [m EXCEPT !.call_stack = SubSeq(@, 1, Len(@) - 1),
                                     !.stack = SubSeq(@, 1, keep)]
                 IN IF m1.call_stack # <<>>
                    THEN AdvancePc(push_stack(m1, return_value))
                    ELSE [RetOk(m, return_value, "Return") EXCEPT
                             !.call_stack = m1.call_stack,
                             !.stack = m1.stack]
            [] op = "NewObject" ->
                 LET m1 == lock_and_allocate(m, ObjectObj(<<>>))
                 IN IF Blocked(m1) THEN m1
                    ELSE AdvancePc(push_stack(m1, VObject(AllocatedHandle(m.gc))))
            [] op = "NewArray" ->
                 LET p == PopElements(m, arg, <<>>)
                     m1 == lock_and_allocate(p.m, ArrayObj(p.elements))
                 IN IF Returned(p.m) THEN p.m
                    ELSE IF Blocked(m1) THEN m1
                    ELSE AdvancePc(push_stack(m1, VObject(AllocatedHandle(m.gc))))
            [] op = "Pop" -> AdvancePc(pop_stack(m))
            [] op = "Duplicate" ->
                 IF m.stack = <<>>
                 THEN RetErr(m, "InvalidOperation", "Stack underflow")
                 ELSE AdvancePc(push_stack(m, Popped(m)))
            [] op = "Halt" -> RetPopOrUndefined(m, "Halt")
            [] OTHER -> RetErr(m, "InvalidBytecode", "Unimplemented instruction"))

(* execute: push the frame; after the loop has returned, pop it. *)
execute_enter(v, bytecode) ==
    [v EXCEPT !.call_stack = Append(@, [bytecode |-> bytecode, pc |-> 0,
                                         locals |-> <<>>,
                                         base_stack_offset |-> Len(v.stack)]),
              !.result = NoResult,
              !.jumped_out = FALSE]

execute_leave(v) ==
    [v EXCEPT !.call_stack = IF @ = <<>> THEN @ ELSE SubSeq(@, 1, Len(@) - 1)]

(* Runtime::value_to_gc_handle on the value execute returned; m is the     *)
(* Runtime's machine and the collector handle it shares with it.           *)
ValueObject(value) ==
    IF value.t = "String" THEN StringObj(value.s)
    ELSE [kind |-> value.t, elems |-> <<>>]

value_to_gc_handle(m, value) ==
    IF value.t = "Object" THEN m ELSE lock_and_allocate(m, ValueObject(value))

-----------------------------------------------------------------------------
(* Event loop and promises (bebion-runtime/src/event_loop.rs).  A microtask *)
(* is its id and what its callback is ("executor": the closure that hands   *)
(* resolve and reject to the executor of the promise).  A promise is its id *)
(* and its PromiseState: state "Pending" with then_callbacks, or            *)
(* "Fulfilled" / "Rejected" with value ("None" before create_promise).      *)
(* resolve and reject tell where the two FnOnce boxes are: "none" (not      *)
(* made), "queued" (inside the microtask), "held" by the host, "called" or  *)
(* "dropped".  A callback is the number of the then call that registered    *)
(* it; registered counts the then calls and invoked lists the calls of      *)
(* callbacks made so far, each with the PromiseResult it was given.         *)

MaxCallbacks == 3
PromiseValues == {1, 2}

NewEventLoop == [next_timer_id |-> 1, running |-> FALSE, microtasks |-> <<>>]

NoPromise ==
    [id |-> 0, state |-> "None", value |-> 0, then_callbacks |-> <<>>,
     resolve |-> "none", reject |-> "none", registered |-> 0, invoked |-> <<>>]

event_loop_start(el) == [el EXCEPT !.running = TRUE]

event_loop_stop(el) == [el EXCEPT !.running = FALSE, !.microtasks = <<>>]

queue_microtask(el, callback) ==
    [el EXCEPT !.microtasks = Append(@, [id |-> el.next_timer_id,
                                         callback |-> callback]),
               !.next_timer_id = @ + 1]

(* create_promise: the event loop and the promise it returns *)
create_promise(el) ==
    [event_loop |-> queue_microtask([el EXCEPT !.next_timer_id = @ + 1], "executor"),
     promise |-> [NoPromise EXCEPT !.id = el.next_timer_id, !.state = "Pending",
                                   !.resolve = "queued", !.reject = "queued"]]

(* for callback in then_callbacks { callback(result(value)) } *)
Invocations(then_callbacks, result, value) ==
    [i \in 1 .. Len(then_callbacks) |->
        [callback |-> then_callbacks[i], result |-> result, value |-> value]]

(* The resolve closure: mem::replace stores Fulfilled(value) whatever the   *)
(* state was, and the callbacks are called when it was Pending.             *)
resolve(p, value) ==
    LET replaced == [p EXCEPT !.state = "Fulfilled", !.value = value,
                              !.then_callbacks = <<>>, !.resolve = "called"]
    IN IF p.state = "Pending"
       THEN [replaced EXCEPT !.invoked = @ \o Invocations(p.then_callbacks, "Ok", value)]
       ELSE replaced

(* The reject closure *)
reject(p, value) ==
    LET replaced == [p EXCEPT !.state = "Rejected", !.value = value,
                              !.then_callbacks = <<>>, !.reject = "called"]
    IN IF p.state = "Pending"
       THEN [replaced EXCEPT !.invoked = @ \o Invocations(p.then_callbacks, "Err", value)]
       ELSE replaced

(* Promise::then with the callback numbered p.registered + 1 *)
then(p) ==
    LET callback == p.registered + 1
        q == [p EXCEPT !.registered = callback]
    IN CASE p.state = "Pending" -> [q EXCEPT !.then_callbacks = Append(@, callback)]
         [] p.state = "Fulfilled" ->
                [q EXCEPT !.invoked = Append(@, [callback |-> callback, result |-> "Ok",
                                                 value |-> p.value])]
         [] OTHER ->
                [q EXCEPT !.invoked = Append(@, [callback |-> callback, result |-> "Err",
                                                 value |-> p.value])]

(* What an executor does with the two functions it is given: it calls one  *)
(* of them with a value or none, and the host keeps the ones it did not     *)
(* call (it may call them later, see CallResolve and CallReject).           *)
ExecutorPlans ==
    {<<>>} \cup {<<c>> : c \in {"resolve", "reject"} \X PromiseValues}

RECURSIVE executor(_, _)
executor(p, plan) ==
    IF plan = <<>>
    THEN [p EXCEPT !.resolve = IF @ = "queued" THEN "held" ELSE @,
                   !.reject = IF @ = "queued" THEN "held" ELSE @]
    ELSE executor(IF Head(plan)[1] = "resolve" THEN resolve(p, Head(plan)[2])
                                               ELSE reject(p, Head(plan)[2]),
                  Tail(plan))

-----------------------------------------------------------------------------
(* Engine (bebion-core/src/lib.rs, execute_script): the scripts a host runs *)
(* on one engine, each compiled by the engine's Compiler and executed by    *)
(* its VirtualMachine, which shares the collector.                          *)

(* The programs handed to execute_script, as the parser builds them. *)
Programs ==
    LET X == Identifier("x")
        One == NumberLit(1)
        Two == NumberLit(2)
        Assign(v) == Expression("AssignmentExpression", "Assign", <<X, v>>)
        Increment == Expression("UpdateExpression", "Increment", <<X>>)
        Stmt(e) == Statement("ExpressionStatement", <<e>>)
        Block(b) == Statement("BlockStatement", b)
        Break == Statement("BreakStatement", <<>>)
        Continue == Statement("ContinueStatement", <<>>)
        Let(name, init) ==
            VariableDeclaration("Let", <<VariableDeclarator(name, init)>>)
        EmptyFunction == Function("FunctionExpression", "", <<>>, Block(<<>>))
        BreakInFunction ==
            Function("FunctionDeclaration", "f", <<>>, Block(<<Break>>))
        BreakAfterLetInFunction ==
            Function("FunctionDeclaration", "f", <<>>,
                     Block(<<Let("a", None), Break>>))
        BreakAfterLetInFunctionOfParam ==
            Function("FunctionDeclaration", "f", <<Identifier("a")>>,
                     Block(<<Let("b", None), Break>>))
        ReturnArgument ==
            Function("FunctionDeclaration", "f", <<Identifier("a")>>,
                Block(<<Statement("ReturnStatement", <<Identifier("a")>>)>>))
        Expressions ==
            { One, X, Identifier("f"), Assign(One), Increment, EmptyFunction,
              Expression("BinaryExpression", "NotEqual", <<One, Two>>),
              Expression("BinaryExpression", "Add", <<One, X>>),
              Expression("BinaryExpression", "Add", <<StringLit("a"), One>>),
              Expression("BinaryExpression", "Add",
                         <<One, Expression("CallExpression", "", <<X>>)>>),
              Expression("BinaryExpression", "Less", <<One, EmptyFunction>>),
              Expression("AssignmentExpression", "AddAssign", <<X, One>>),
              Expression("ConditionalExpression", "", <<X, One, Two>>),
              Expression("ConditionalExpression", "", <<One, Two, One>>),
              Expression("CallExpression", "", <<X, One>>),
              Expression("CallExpression", "", <<EmptyFunction>>),
              Expression("UnaryExpression", "Minus", <<One>>),
              Expression("UnaryExpression", "Not", <<X>>),
              Expression("ArrayExpression", "", <<One>>),
              Expression("ArrayExpression", "", <<EmptyFunction>>),
              Expression("ObjectExpression", "", <<>>),
              Expression("ObjectExpression", "", <<Property(Identifier("y"), One)>>),
              Expression("AssignmentExpression", "Assign",
                  <<Expression("MemberExpression", "dotted", <<X, Identifier("y")>>),
                    One>>),
              Expression("MemberExpression", "dotted", <<X, Identifier("y")>>) }
        SimpleStatements ==
            {Stmt(e) : e \in Expressions}
                \cup {Let("x", One), Break, Continue,
                      Statement("ReturnStatement", <<One>>),
                      Statement("ReturnStatement", <<None>>),
                      Statement("ThrowStatement", <<One>>)}
        BodyStatements ==
            {Stmt(One), Stmt(Assign(One)), Stmt(Increment), Break, Continue}
        Bodies ==
            {<<>>} \cup {<<s>> : s \in BodyStatements
                                      \cup {BreakInFunction, BreakAfterLetInFunction}}
                   \cup {<<s, t>> : s \in BodyStatements, t \in BodyStatements}
        CompoundStatements ==
            {Statement("WhileStatement", <<t, Block(b)>>) :
                 t \in {One, X}, b \in Bodies}
                \cup {Statement("ForStatement", <<None, t, Assign(Two), Block(b)>>) :
                         t \in {None, X},
                         b \in {<<>>, <<Break>>, <<Continue>>,
                                <<Stmt(One), Continue>>,
                                <<BreakAfterLetInFunction>>}}
                \cup {Statement("IfStatement", <<t, Block(b), a>>) :
                         t \in {One, X},
                         b \in {<<>>, <<Stmt(One)>>, <<Break>>},
                         a \in {None, Block(<<Stmt(One)>>)}}
                \cup {BreakInFunction, BreakAfterLetInFunctionOfParam, ReturnArgument,
                      Statement("TryStatement",
                                <<Block(<<>>), CatchClause("e", Block(<<>>)), None>>),
                      Statement("TryStatement",
                                <<Block(<<Stmt(One)>>), CatchClause("", Block(<<>>)),
                                  Block(<<>>)>>),
                      Statement("TryStatement",
                                <<Block(<<>>), None, Block(<<>>)>>)}
    IN {<<>>} \cup {<<s>> : s \in SimpleStatements \cup CompoundStatements}
              \cup {<<s, t>> :
                       s \in {Let("x", One), Stmt(One), ReturnArgument,
                              Statement("WhileStatement", <<X, Block(<<Break>>)>>)},
                       t \in {Stmt(X), Stmt(One), Stmt(Identifier("f")),
                              Let("x", One), Break}}

(* A break or continue that no loop of its own function body (or of the    *)
(* top-level code) encloses.                                                *)
RECURSIVE StrayIn(_, _)
StrayIn(node, in_loop) ==
    CASE node.type \in {"BreakStatement", "ContinueStatement"} -> ~in_loop
      [] node.type = "WhileStatement" ->
            StrayIn(node.kids[1], in_loop) \/ StrayIn(node.kids[2], TRUE)
      [] node.type = "ForStatement" ->
            \/ \E i \in 1 .. 3 : StrayIn(node.kids[i], in_loop)
            \/ StrayIn(node.kids[4], TRUE)
      [] node.type \in {"FunctionDeclaration", "FunctionExpression"} ->
            StrayIn(FunctionBody(node), FALSE)
      [] OTHER -> \E i \in DOMAIN node.kids : StrayIn(node.kids[i], in_loop)

(* The unit the last compile call returned (err = "none") or the error it   *)
(* failed with; lowered is the unit before the optimizer ran.  program is   *)
(* the program that was compiled and stray records whether it had a stray   *)
(* break or continue.                                                       *)
NoUnit ==
    [compiled |-> FALSE, err |-> "none", bytecode |-> EmptyBytecode,
     lowered |-> EmptyBytecode, loops |-> <<>>, stray |-> FALSE,
     program |-> <<>>]

CompileErrors == {"InvalidSyntax", "UnsupportedFeature", "InternalError"}

(* The record of a lexer or parser call not made yet *)
NotParsed ==
    [source |-> <<>>, call |-> "none", err |-> "none", tokens |-> <<>>,
     body |-> <<>>, failed |-> 0]

EngineIdle ==
    /\ parser = [tokens |-> <<>>, current |-> 0]
    /\ parsed = NotParsed
    /\ compiler = NewCompiler
    /\ vm = NewVM
    /\ phase = "idle"
    /\ unit = NoUnit
    /\ scripts = 0
    /\ steps = 0
    /\ event_loop = NewEventLoop
    /\ promise = NoPromise

-----------------------------------------------------------------------------
(* Collector: the calls a client makes *)

(* A collector that has served collection_frequency - 2 allocate_null calls *)
(* and one collect: the next allocation but one is the 100th.               *)
WarmAllocations == collection_frequency - 2

WarmCollector ==
    [NewCollector EXCEPT !.next_handle = WarmAllocations + 1,
                         !.total_allocations = WarmAllocations,
                         !.total_collections = 1]

AllocBase(g) == IF g.total_allocations >= WarmAllocations THEN WarmAllocations ELSE 0

(* Handles a client holds: the ones allocate has returned in this run (the *)
(* warm-up handles of WarmCollector were all swept and are not kept).       *)
Issued(g) == (AllocBase(g) + 1) .. (g.next_handle - 1)

(* Element lists of at most MaxElems issued handles, in increasing order. *)
ElemLists(g) ==
    {<<>>} \cup {<<a>> : a \in Issued(g)}
           \cup (IF MaxElems >= 2
                 THEN {<<a, b>> : a \in Issued(g), b \in Issued(g)}
                 ELSE {})

ObjectTypes(g) == {NumberObj} \cup {ArrayObj(e) : e \in ElemLists(g)}

(* What the last call returned, and with it the run of allocate calls that *)
(* ends at the last call or just before it: their number n, the sum of the  *)
(* sizes allocated, and from the moment before the first of them the object *)
(* count, bytes_freed and whether every object was reachable from a root.   *)
NoRun == [n |-> 0, sizes |-> 0, objects |-> 0, freed |-> 0, rooted |-> FALSE]

NoRet == [op |-> "none", handle |-> 0, count |-> 0, ok |-> TRUE, run |-> NoRun,
          survived |-> <<>>]

(* For each object that no root reaches, the number of collect calls it has *)
(* survived since a root last reached it (since its allocation, if none     *)
(* ever did): r holds the numbers before the call that leads from g to g2.  *)
Survived(g, r, g2) ==
    [h \in Live(g2) \ Reachable(g2) |->
        IF h \in DOMAIN r.survived
        THEN r.survived[h] + (g2.total_collections - g.total_collections)
        ELSE 0]

AllocationRun(g, r, object_type) ==
    IF r.op = "allocate"
    THEN [r.run EXCEPT !.n = @ + 1, !.sizes = @ + calculate_object_size(object_type)]
    ELSE [n |-> 1, sizes |-> calculate_object_size(object_type),
          objects |-> Cardinality(Live(g)), freed |-> g.bytes_freed,
          rooted |-> Live(g) \subseteq Reachable(g)]

GcInit ==
    /\ gc \in {NewCollector, WarmCollector}
    /\ ret = NoRet
    /\ live_only = TRUE
    /\ EngineIdle

Allocate ==
    /\ gc.total_allocations < AllocBase(gc) + MaxAllocations
    /\ \E t \in ObjectTypes(gc) :
          /\ gc' = allocate(gc, t)
          /\ ret' = [NoRet EXCEPT !.op = "allocate", !.handle = AllocatedHandle(gc),
                                  !.run = AllocationRun(gc, ret, t),
                                  !.survived = Survived(gc, ret, gc')]
          /\ live_only' = (live_only /\ Range(t.elems) \subseteq Live(gc))
    /\ UNCHANGED engineVars

AddRoot ==
    /\ \E h \in Issued(gc) :
           /\ gc' = add_root(gc, h)
           /\ ret' = [NoRet EXCEPT !.op = "add_root",
                                   !.survived = Survived(gc, ret, gc')]
           /\ live_only' = (live_only /\ h \in Live(gc))
    /\ UNCHANGED engineVars

RemoveRoot ==
    /\ \E h \in Issued(gc) :
           /\ gc' = remove_root(gc, h)
           /\ ret' = [NoRet EXCEPT !.op = "remove_root",
                                   !.survived = Survived(gc, ret, gc')]
           /\ live_only' = live_only
    /\ UNCHANGED engineVars

UpdateObject ==
    /\ \E h \in Issued(gc), t \in ObjectTypes(gc) :
           /\ gc' = update_object(gc, h, t)
           /\ ret' = [NoRet EXCEPT !.op = "update_object",
                                   !.ok = UpdateSucceeds(gc, h),
                                   !.survived = Survived(gc, ret, gc')]
           /\ live_only' = (live_only /\ Range(t.elems) \subseteq Live(gc))
    /\ UNCHANGED engineVars

Collect ==
    /\ gc.total_collections < MaxCollections
    /\ gc' = collect(gc)
    /\ ret' = [NoRet EXCEPT !.op = "collect", !.count = CollectCount(gc),
                            !.run = IF ret.op = "allocate" THEN ret.run ELSE NoRun,
                            !.survived = Survived(gc, ret, gc')]
    /\ live_only' = live_only
    /\ UNCHANGED engineVars

ForceCollect ==
    /\ gc' = force_collect(gc)
    /\ ret' = [NoRet EXCEPT !.op = "force_collect", !.count = ForceCollectCount(gc),
                            !.survived = Survived(gc, ret, gc')]
    /\ live_only' = live_only
    /\ UNCHANGED engineVars

SetThresholds ==
    /\ \E y \in {0, DefaultYoungThreshold} :
           /\ y # gc.young_threshold
           /\ gc' = set_thresholds(gc, y, gc.old_threshold)
           /\ ret' = [NoRet EXCEPT !.op = "set_thresholds",
                                   !.survived = Survived(gc, ret, gc')]
           /\ live_only' = live_only
    /\ UNCHANGED engineVars

GcNext ==
    \/ Allocate
    \/ AddRoot
    \/ RemoveRoot
    \/ UpdateObject
    \/ Collect
    \/ ForceCollect
    \/ SetThresholds

SpecGC == GcInit /\ [][GcNext]_vars

-----------------------------------------------------------------------------
(* Engine: the steps of execute_script *)

EngineInit ==
    /\ gc = NewCollector
    /\ ret = NoRet
    /\ live_only = TRUE
    /\ EngineIdle

(* execute_script: self.compiler.compile(&ast); a compile error is returned *)
(* to the host, a panic ends the process.                                   *)
CompileScript ==
    /\ phase = "idle"
    /\ scripts < MaxScripts
    /\ \E program \in Programs :
          \E c \in {compile(compiler, program)} :
             /\ compiler' = c.compiler
             /\ unit' = [compiled |-> TRUE, err |-> c.err,
                         bytecode |-> c.bytecode, lowered |-> c.lowered,
                         loops |-> c.loops,
                         stray |-> \E i \in DOMAIN program :
                                      StrayIn(program[i], FALSE),
                         program |-> program]
             /\ phase' = CASE c.err = "none" -> "compiled"
                           [] c.err = "panic" -> "crashed"
                           [] OTHER -> "idle"
    /\ scripts' = scripts + 1
    /\ UNCHANGED <<vm, steps, gc, ret, live_only, parser, parsed,
                   event_loop, promise>>

(* VirtualMachine::execute up to the call of run_interpreter_loop *)
VMExecute ==
    /\ phase = "compiled"
    /\ vm' = execute_enter(vm, unit.bytecode)
    /\ phase' = "running"
    /\ steps' = 0
    /\ UNCHANGED <<compiler, unit, scripts, gc, ret, live_only, parser, parsed,
                   event_loop, promise>>

(* one iteration of run_interpreter_loop *)
VMStep ==
    /\ phase = "running"
    /\ ~Returned(vm)
    /\ ~Blocked(vm)
    /\ steps < MaxSteps
    /\ \E m \in {Step(Machine(vm, gc))} :
          vm' = VmOf(m) /\ gc' = m.gc
    /\ steps' = steps + 1
    /\ UNCHANGED <<compiler, phase, unit, scripts, ret, live_only, parser, parsed,
                   event_loop, promise>>

(* the loop has returned: execute pops the frame, Runtime::execute turns an *)
(* Ok value into a handle, and execute_script returns to the host.          *)
ExecuteReturn ==
    /\ phase = "running"
    /\ Returned(vm)
    /\ \E m \in {IF vm.result.status = "ok"
                  THEN value_to_gc_handle(Machine(execute_leave(vm), gc),
                                          vm.result.value)
                  ELSE Machine(execute_leave(vm), gc)} :
          vm' = VmOf(m) /\ gc' = m.gc
    /\ phase' = "idle"
    /\ unit' = NoUnit
    /\ steps' = 0
    /\ UNCHANGED <<compiler, scripts, ret, live_only, parser, parsed,
                   event_loop, promise>>

EngineNext ==
    \/ CompileScript
    \/ VMExecute
    \/ VMStep
    \/ ExecuteReturn

SpecEngine == EngineInit /\ [][EngineNext]_vars

(* An engine whose operand stack is one value short of max_stack_size: each *)
(* execute that fails inside an expression leaves the operands pushed so    *)
(* far on the stack (execute never truncates it), and max_stack_size - 1    *)
(* such calls have been made.                                               *)
WarmVM == [NewVM EXCEPT !.stack = [i \in 1 .. (max_stack_size - 1) |-> VNum(1)]]

StackInit ==
    /\ gc = NewCollector
    /\ ret = NoRet
    /\ live_only = TRUE
    /\ parser = [tokens |-> <<>>, current |-> 0]
    /\ parsed = NotParsed
    /\ compiler = NewCompiler
    /\ vm = WarmVM
    /\ phase = "idle"
    /\ unit = NoUnit
    /\ scripts = 0
    /\ steps = 0
    /\ event_loop = NewEventLoop
    /\ promise = NoPromise

SpecStack == StackInit /\ [][EngineNext]_vars

-----------------------------------------------------------------------------
(* Lexer (crates/bebion-parser/src/lexer.rs).  A source text is a sequence  *)
(* of characters, each a one-character string; a lexeme is a sequence of    *)
(* characters as well.  Token keeps the fields the parser reads and the     *)
(* start / end offsets; line and column are left out.  A Lexer is its input *)
(* and its position.  The arms of                                           *)
(* next_token for characters that no text of Sources contains (- ! < > & |  *)
(* ? { } [ ] , . : ^ ~ % ' `), the exponent part of a number and the        *)
(* keyword table are left out: with this alphabet every word is an          *)
(* identifier and every number a run of digits.                             *)

Token(token_type, lexeme, name, num, start, end) ==
    [token_type |-> token_type, lexeme |-> lexeme, name |-> name, num |-> num,
     start |-> start, end |-> end]

(* peek (offset 0) and peek_ahead: the character offset places after the   *)
(* position, "NUL" for '\0' past the end of the input.                      *)
peek_ahead(lexer, offset) ==
    IF lexer.position + offset >= Len(lexer.input)
    THEN "NUL"
    ELSE lexer.input[lexer.position + offset + 1]

(* The value a function of the lexer returns: Ok(token) with the lexer as  *)
(* the call left it, or Err(LexicalError { message }).                      *)
Lexed(lexer, token) == [lexer |-> lexer, token |-> token, err |-> "none", message |-> ""]

LexicalError(lexer, message) ==
    [lexer |-> lexer, token |-> Token("EOF", <<>>, <<>>, 0, 0, 0),
     err |-> "LexicalError", message |-> message]

(* string_literal, entered after the opening quote: value is the text      *)
(* decoded so far, each call one iteration of the loop.                     *)
RECURSIVE string_literal(_, _, _, _)
string_literal(lexer, quote, start_pos, value) ==
    LET ch == peek_ahead(lexer, 0)
        escaped == peek_ahead(lexer, 1)
        Advanced(n) ==
            [lexer EXCEPT !.position = IF @ + n > Len(lexer.input)
                                       THEN Len(lexer.input) ELSE @ + n]
        decoded == CASE escaped = "n" -> <<"\n">>
                     [] escaped = "t" -> <<"\t">>
                     [] escaped = "r" -> <<"\r">>
                     [] escaped = "\\" -> <<"\\">>
                     [] escaped = "'" -> <<"'">>
                     [] escaped = "\"" -> <<"\"">>
                     [] escaped = "0" -> <<"NUL">>
                     [] OTHER -> <<"\\", escaped>>
    IN IF lexer.position >= Len(lexer.input)
       THEN LexicalError(lexer, "Unterminated string literal")
       ELSE IF ch = quote
       THEN Lexed(Advanced(1),
                  Token("StringLiteral", <<quote>> \o value \o <<quote>>, value, 0,
                        start_pos, lexer.position + 1))
       ELSE IF ch = "\n"
       THEN LexicalError(lexer, "Unterminated string literal")
       ELSE IF ch = "\\"
       THEN string_literal(Advanced(2), quote, start_pos, value \o decoded)
       ELSE string_literal(Advanced(1), quote, start_pos, value \o <<ch>>)

(* numeric_literal: the run of digits and dots from the first digit on,    *)
(* parsed as a number (str::parse::<f64> fails on a second dot).            *)
numeric_literal(lexer, start_pos) ==
    LET input == lexer.input
        stop == CHOOSE p \in start_pos .. Len(input) :
                    /\ p = Len(input) \/ input[p + 1] \notin {"0", "1", "2", "."}
                    /\ \A q \in start_pos .. (p - 1) : input[q + 1] \in {"0", "1", "2", "."}
        lexeme == SubSeq(input, start_pos + 1, stop)
        digit == [c \in {"0", "1", "2"} |-> CASE c = "0" -> 0 [] c = "1" -> 1 [] c = "2" -> 2]
        RECURSIVE parse(_)
        parse(s) == IF s = <<>> THEN 0
                    ELSE 10 * parse(SubSeq(s, 1, Len(s) - 1)) + digit[s[Len(s)]]
    IN IF \E i \in DOMAIN lexeme : lexeme[i] = "."
       THEN LexicalError([lexer EXCEPT !.position = stop], "Invalid numeric literal")
       ELSE Lexed([lexer EXCEPT !.position = stop],
                  Token("NumericLiteral", lexeme, <<>>, parse(lexeme), start_pos, stop))

(* next_token: one token from the position on; a comment is skipped and    *)
(* the token after it returned.                                             *)
RECURSIVE next_token(_)
next_token(lexer) ==
    LET input == lexer.input
        start_pos == lexer.position
        ch == peek_ahead(lexer, 0)
        p1 == peek_ahead(lexer, 1)
        p2 == peek_ahead(lexer, 2)
        At(position) == [lexer EXCEPT !.position = position]
        Make(token_type, lexeme) ==
            Lexed(At(start_pos + Len(lexeme)),
                  Token(token_type, lexeme, <<>>, 0, start_pos, start_pos + Len(lexeme)))
        \* the first offset from `from` on whose character is not in chars
        Past(from, chars) ==
            CHOOSE p \in from .. Len(input) :
                /\ p = Len(input) \/ input[p + 1] \notin chars
                /\ \A q \in from .. (p - 1) : input[q + 1] \in chars
        Letters == {"a", "b", "n", "_", "$"}
        Closings == {p \in (start_pos + 2) .. (Len(input) - 2) :
                        input[p + 1] = "*" /\ input[p + 2] = "/"}
        word_end == Past(start_pos, Letters \cup {"0", "1", "2"})
        space_end == Past(start_pos + 1, {" ", "\t", "\r"})
    IN CASE ch \in {" ", "\t", "\r"} ->
                Lexed(At(space_end), Token("Whitespace", <<" ">>, <<>>, 0, start_pos, space_end))
         [] ch = "\n" ->
                Lexed(At(start_pos + 1), Token("Newline", <<"\n">>, <<>>, 0, start_pos, start_pos + 1))
         [] ch = "/" ->
                IF p1 = "/"
                THEN next_token(At(Past(start_pos + 1, {input[i] : i \in DOMAIN input} \ {"\n"})))
                ELSE IF p1 = "*"
                THEN IF Closings = {}
                     THEN LexicalError(At(Len(input)), "Unterminated block comment")
                     ELSE next_token(At((CHOOSE p \in Closings : \A q \in Closings : p <= q) + 2))
                ELSE IF p1 = "=" THEN Make("DivideAssign", <<"/", "=">>)
                ELSE Make("Divide", <<"/">>)
         [] ch = "+" ->
                IF p1 = "+" THEN Make("Increment", <<"+", "+">>)
                ELSE IF p1 = "=" THEN Make("PlusAssign", <<"+", "=">>)
                ELSE Make("Plus", <<"+">>)
         [] ch = "*" ->
                IF p1 = "*"
                THEN IF p2 = "=" THEN Make("PowerAssign", <<"*", "*", "=">>)
                     ELSE Make("Power", <<"*", "*">>)
                ELSE IF p1 = "=" THEN Make("MultiplyAssign", <<"*", "=">>)
                ELSE Make("Multiply", <<"*">>)
         [] ch = "=" ->
                IF p1 = "="
                THEN IF p2 = "=" THEN Make("StrictEqual", <<"=", "=", "=">>)
                     ELSE Make("Equal", <<"=", "=">>)
                ELSE IF p1 = ">" THEN Make("Arrow", <<"=", ">">>)
                ELSE Make("Assign", <<"=">>)
         [] ch = "!" ->
                IF p1 = "="
                THEN IF p2 = "=" THEN Make("StrictNotEqual", <<"!", "=", "=">>)
                     ELSE Make("NotEqual", <<"!", "=">>)
                ELSE Make("LogicalNot", <<"!">>)
         [] ch = "(" -> Make("LeftParen", <<"(">>)
         [] ch = ")" -> Make("RightParen", <<")">>)
         [] ch = ";" -> Make("Semicolon", <<";">>)
         [] ch = "\"" -> string_literal(At(start_pos + 1), ch, start_pos, <<>>)
         [] ch \in {"0", "1", "2"} -> numeric_literal(lexer, start_pos)
         [] ch \in Letters ->
                Lexed(At(word_end),
                      Token("Identifier", SubSeq(input, start_pos + 1, word_end),
                            SubSeq(input, start_pos + 1, word_end), 0, start_pos, word_end))
         [] OTHER -> LexicalError(At(IF start_pos < Len(input) THEN start_pos + 1 ELSE start_pos),
                                  "Unexpected character")

(* tokenize: tokens holds the tokens pushed so far, each call one          *)
(* iteration of the loop; whitespace and newline tokens are dropped and an *)
(* EOF token with an empty lexeme ends the list.                            *)
RECURSIVE tokenize(_, _)
tokenize(lexer, tokens) ==
    LET Push(r) ==
            IF r.err # "none"
            THEN [err |-> r.err, message |-> r.message, tokens |-> <<>>]
            ELSE tokenize(r.lexer, IF r.token.token_type \in {"Whitespace", "Newline"}
                                   THEN tokens ELSE Append(tokens, r.token))
    IN IF lexer.position >= Len(lexer.input)
       THEN [err |-> "none", message |-> "",
             tokens |-> Append(tokens, Token("EOF", <<>>, <<>>, 0, lexer.position, lexer.position))]
       ELSE Push(next_token(lexer))

-----------------------------------------------------------------------------
(* Parser (crates/bebion-parser/src/parser.rs).  A parsing function takes   *)
(* the token list and the position self.current and returns the position    *)
(* it leaves with Ok(node) (err "none"), Err(UnexpectedToken) or a panic    *)
(* (err "panic"): unreachable!() or an index outside the token list.        *)
(* Names of identifiers and values of strings are character sequences.      *)
(* A function with a loop is one recursive operator: Enter(current) is its  *)
(* entry, any other argument the value of `expr` at the head of the loop.   *)
(* The statements that start with a keyword or a brace, array, object and   *)
(* function expressions are left out: no text of Sources has such a token.  *)

Parsed(current, node) == [current |-> current, node |-> node, err |-> "none"]
Failed(current, err) == [current |-> current, node |-> None, err |-> err]
Enter(current) == Failed(current, "enter")

(* check(&T) for one type, matches(&[..]) for several *)
matches(tokens, current, token_types) ==
    /\ tokens[current + 1].token_type # "EOF"
    /\ tokens[current + 1].token_type \in token_types

(* advance: the position after it *)
advance(tokens, current) ==
    IF tokens[current + 1].token_type = "EOF" THEN current ELSE current + 1

(* previous().token_type; tokens[current - 1] at position 0 panics *)
previous(tokens, current) ==
    IF current = 0 THEN "panic" ELSE tokens[current].token_type

(* The operator a level's match maps a token type to; "unreachable" is the *)
(* `_ => unreachable!()` arm.                                               *)
operator(token_type, token_types) ==
    IF token_type \notin token_types THEN "unreachable"
    ELSE CASE token_type = "Plus" -> "Add"
           [] token_type = "Minus" -> "Sub"
           [] token_type = "Multiply" -> "Mul"
           [] token_type = "Divide" -> "Div"
           [] token_type = "Modulo" -> "Mod"
           [] token_type = "Power" -> "Pow"
           [] token_type = "PlusAssign" -> "AddAssign"
           [] token_type = "MinusAssign" -> "SubAssign"
           [] token_type = "MultiplyAssign" -> "MulAssign"
           [] token_type = "DivideAssign" -> "DivAssign"
           [] token_type = "ModuloAssign" -> "ModAssign"
           [] token_type = "PowerAssign" -> "PowAssign"
           [] OTHER -> token_type

RECURSIVE expression(_, _)

primary(tokens, current) ==
    LET Literal(token, after) ==
            CASE token.token_type = "BooleanLiteral" ->
                     Parsed(after, Node("Literal", "Boolean", "", token.num, <<>>))
              [] token.token_type = "NullLiteral" ->
                     Parsed(after, Node("Literal", "Null", "", 0, <<>>))
              [] token.token_type = "UndefinedLiteral" ->
                     Parsed(after, Node("Literal", "Undefined", "", 0, <<>>))
              [] token.token_type = "NumericLiteral" -> Parsed(after, NumberLit(token.num))
              [] token.token_type = "StringLiteral" -> Parsed(after, StringLit(token.name))
              [] token.token_type = "Identifier" -> Parsed(after, Identifier(token.name))
              [] token.token_type = "This" ->
                     Parsed(after, Identifier(<<"t", "h", "i", "s">>))
              [] OTHER -> Failed(current, "UnexpectedToken")
        Parenthesized(e) ==
            IF e.err # "none" THEN e
            ELSE IF matches(tokens, e.current, {"RightParen"})
            THEN Parsed(e.current + 1, e.node)
            ELSE Failed(e.current, "UnexpectedToken")
    IN IF tokens[current + 1].token_type = "LeftParen"
       THEN Parenthesized(expression(tokens, advance(tokens, current)))
       ELSE Literal(tokens[current + 1], advance(tokens, current))

(* finish_call: the LeftParen that call matched has not been consumed.     *)
(* arguments holds the arguments pushed so far, e the one just parsed.     *)
RECURSIVE finish_call(_, _, _, _)
finish_call(tokens, callee, arguments, e) ==
    LET Call(args) == Expression("CallExpression", "", <<callee>> \o args)
    IN IF e.err = "enter"
       THEN IF matches(tokens, e.current, {"RightParen"})
            THEN Parsed(e.current + 1, Call(<<>>))
            ELSE finish_call(tokens, callee, arguments, expression(tokens, e.current))
       ELSE IF e.err # "none" THEN e
       ELSE IF matches(tokens, e.current, {"Comma"})
       THEN finish_call(tokens, callee, Append(arguments, e.node),
                        expression(tokens, advance(tokens, e.current)))
       ELSE IF matches(tokens, e.current, {"RightParen"})
       THEN Parsed(e.current + 1, Call(Append(arguments, e.node)))
       ELSE Failed(e.current, "UnexpectedToken")

(* call: after a matched Dot expect_identifier finds the Dot itself        *)
RECURSIVE call(_, _)
call(tokens, e) ==
    IF e.err = "enter" THEN call(tokens, primary(tokens, e.current))
    ELSE IF e.err # "none" THEN e
    ELSE IF matches(tokens, e.current, {"LeftParen"})
    THEN call(tokens, finish_call(tokens, e.node, <<>>, Enter(e.current)))
    ELSE IF matches(tokens, e.current, {"Dot"})
    THEN Failed(e.current, "UnexpectedToken")
    ELSE e

(* unary, and postfix which it calls when no unary operator is matched.   *)
(* unary: previous() panics at position 0, unreachable!() when the token   *)
(* before is no unary operator; when it is one, the matched operator is    *)
(* not consumed and the call of unary for the argument is made at the same *)
(* position: it recurses until the stack overflows (err "overflow").       *)
(* postfix does not consume the operator it matched.                       *)
unary(tokens, e) ==
    LET UpdateOps == {"Increment", "Decrement"}
        postfix(expr) ==
            IF expr.err # "none" \/ ~matches(tokens, expr.current, UpdateOps) THEN expr
            ELSE IF operator(previous(tokens, expr.current), UpdateOps) = "unreachable"
            THEN Failed(expr.current, "panic")
            ELSE Parsed(expr.current,
                        Expression("UpdateExpression",
                                   operator(previous(tokens, expr.current), UpdateOps),
                                   <<expr.node>>))
        UnaryOps == {"LogicalNot", "Minus", "Plus", "BitwiseNot", "TypeOf", "Void",
                     "Delete"}
    IN IF matches(tokens, e.current, UnaryOps)
       THEN IF operator(previous(tokens, e.current), UnaryOps) = "unreachable"
            THEN Failed(e.current, "panic")
            ELSE Failed(e.current, "overflow")
       ELSE postfix(call(tokens, e))

RECURSIVE factor(_, _)
factor(tokens, e) ==
    LET FactorOps == {"Divide", "Multiply", "Modulo", "Power"}
        operator_token == previous(tokens, e.current)
        Binary(right) ==
            IF right.err # "none" THEN right
            ELSE Parsed(right.current,
                        Expression("BinaryExpression", operator(operator_token, FactorOps),
                                   <<e.node, right.node>>))
    IN IF e.err = "enter" THEN factor(tokens, unary(tokens, e))
       ELSE IF e.err # "none" \/ ~matches(tokens, e.current, FactorOps) THEN e
       ELSE IF operator(operator_token, FactorOps) = "unreachable"
       THEN Failed(e.current, "panic")
       ELSE factor(tokens, Binary(unary(tokens, Enter(e.current))))

RECURSIVE term(_, _)
term(tokens, e) ==
    LET TermOps == {"Minus", "Plus"}
        operator_token == previous(tokens, e.current)
        Binary(right) ==
            IF right.err # "none" THEN right
            ELSE Parsed(right.current,
                        Expression("BinaryExpression", operator(operator_token, TermOps),
                                   <<e.node, right.node>>))
    IN IF e.err = "enter" THEN term(tokens, factor(tokens, e))
       ELSE IF e.err # "none" \/ ~matches(tokens, e.current, TermOps) THEN e
       ELSE IF operator(operator_token, TermOps) = "unreachable"
       THEN Failed(e.current, "panic")
       ELSE term(tokens, Binary(factor(tokens, Enter(e.current))))

RECURSIVE comparison(_, _)
comparison(tokens, e) ==
    LET ComparisonOps == {"Greater", "GreaterEqual", "Less", "LessEqual", "In", "InstanceOf"}
        operator_token == previous(tokens, e.current)
        Binary(right) ==
            IF right.err # "none" THEN right
            ELSE Parsed(right.current,
                        Expression("BinaryExpression", operator(operator_token, ComparisonOps),
                                   <<e.node, right.node>>))
    IN IF e.err = "enter" THEN comparison(tokens, term(tokens, e))
       ELSE IF e.err # "none" \/ ~matches(tokens, e.current, ComparisonOps) THEN e
       ELSE IF operator(operator_token, ComparisonOps) = "unreachable"
       THEN Failed(e.current, "panic")
       ELSE comparison(tokens, Binary(term(tokens, Enter(e.current))))

RECURSIVE equality(_, _)
equality(tokens, e) ==
    LET EqualityOps == {"Equal", "NotEqual", "StrictEqual", "StrictNotEqual"}
        operator_token == previous(tokens, e.current)
        Binary(right) ==
            IF right.err # "none" THEN right
            ELSE Parsed(right.current,
                        Expression("BinaryExpression", operator(operator_token, EqualityOps),
                                   <<e.node, right.node>>))
    IN IF e.err = "enter" THEN equality(tokens, comparison(tokens, e))
       ELSE IF e.err # "none" \/ ~matches(tokens, e.current, EqualityOps) THEN e
       ELSE IF operator(operator_token, EqualityOps) = "unreachable"
       THEN Failed(e.current, "panic")
       ELSE equality(tokens, Binary(comparison(tokens, Enter(e.current))))

(* logical_and does not read previous(): its operator is LogicalAnd *)
RECURSIVE logical_and(_, _)
logical_and(tokens, e) ==
    LET LogicalAndOps == {"LogicalAnd"}
        operator_token == previous(tokens, e.current)
        Binary(right) ==
            IF right.err # "none" THEN right
            ELSE Parsed(right.current,
                        Expression("BinaryExpression", "LogicalAnd",
                                   <<e.node, right.node>>))
    IN IF e.err = "enter" THEN logical_and(tokens, equality(tokens, e))
       ELSE IF e.err # "none" \/ ~matches(tokens, e.current, LogicalAndOps) THEN e
       ELSE logical_and(tokens, Binary(equality(tokens, Enter(e.current))))

RECURSIVE logical_or(_, _)
logical_or(tokens, e) ==
    LET LogicalOrOps == {"LogicalOr", "NullishCoalescing"}
        operator_token == previous(tokens, e.current)
        Binary(right) ==
            IF right.err # "none" THEN right
            ELSE Parsed(right.current,
                        Expression("BinaryExpression", operator(operator_token, LogicalOrOps),
                                   <<e.node, right.node>>))
    IN IF e.err = "enter" THEN logical_or(tokens, logical_and(tokens, e))
       ELSE IF e.err # "none" \/ ~matches(tokens, e.current, LogicalOrOps) THEN e
       ELSE IF operator(operator_token, LogicalOrOps) = "unreachable"
       THEN Failed(e.current, "panic")
       ELSE logical_or(tokens, Binary(logical_and(tokens, Enter(e.current))))

(* conditional: test ? expression : conditional *)
RECURSIVE conditional(_, _)
conditional(tokens, current) ==
    LET Join(test, consequent, alternate) ==
            IF alternate.err # "none" THEN alternate
            ELSE Parsed(alternate.current,
                        Expression("ConditionalExpression", "",
                                   <<test.node, consequent.node, alternate.node>>))
        Alternate(test, consequent) ==
            IF consequent.err # "none" THEN consequent
            ELSE IF ~matches(tokens, consequent.current, {"Colon"})
            THEN Failed(consequent.current, "UnexpectedToken")
            ELSE Join(test, consequent, conditional(tokens, consequent.current + 1))
        Rest(test) ==
            IF test.err # "none" \/ ~matches(tokens, test.current, {"QuestionMark"})
            THEN test
            ELSE Alternate(test, expression(tokens, advance(tokens, test.current)))
    IN Rest(logical_or(tokens, Enter(current)))

RECURSIVE assignment(_, _)
assignment(tokens, current) ==
    LET AssignOps == {"Assign", "PlusAssign", "MinusAssign", "MultiplyAssign",
                      "DivideAssign", "ModuloAssign", "PowerAssign"}
        Assign(left, right) ==
            IF right.err # "none" THEN right
            ELSE Parsed(right.current,
                        Expression("AssignmentExpression",
                                   operator(previous(tokens, left.current), AssignOps),
                                   <<left.node, right.node>>))
        Rest(e) ==
            IF e.err # "none" \/ ~matches(tokens, e.current, AssignOps) THEN e
            ELSE IF operator(previous(tokens, e.current), AssignOps) = "unreachable"
            THEN Failed(e.current, "panic")
            ELSE Assign(e, assignment(tokens, e.current))
    IN Rest(conditional(tokens, current))

expression(tokens, current) == assignment(tokens, current)

(* program: body holds the statements pushed so far and failed counts the  *)
(* statements that returned Err, each call one iteration of the loop.  An  *)
(* Err is dropped and one more token skipped.  statement: every token of   *)
(* Sources starts an expression statement, an expression and then          *)
(* consume_semicolon.                                                      *)
RECURSIVE program(_, _, _, _)
program(tokens, current, body, failed) ==
    LET expression_statement(e) ==
            IF e.err # "none" THEN e
            ELSE Parsed(IF matches(tokens, e.current, {"Semicolon"})
                        THEN advance(tokens, e.current) ELSE e.current,
                        Statement("ExpressionStatement", <<e.node>>))
        Next(stmt) ==
            IF stmt.err \in {"panic", "overflow"}
            THEN [err |-> stmt.err, current |-> stmt.current, body |-> body, failed |-> failed]
            ELSE IF stmt.err = "none"
            THEN program(tokens, stmt.current, Append(body, stmt.node), failed)
            ELSE program(tokens, advance(tokens, stmt.current), body, failed + 1)
    IN IF tokens[current + 1].token_type = "EOF"
       THEN [err |-> "none", current |-> current, body |-> body, failed |-> failed]
       ELSE Next(expression_statement(expression(tokens, current)))

-----------------------------------------------------------------------------
(* Parser and lexer: the texts handed to them *)

(* A text is up to MaxPieces pieces in a row, or up to MaxOperators + 1     *)
(* operands joined by binary operators.  The pieces: a digit, a letter,     *)
(* punctuation, a blank, a quote, a string literal "\n" with an escape      *)
(* sequence, a line comment with its newline, a slash (two in a row start a *)
(* line comment that runs to the end of the text), the opening of a block   *)
(* comment and a whole block comment.  No such text opens a parenthesis;    *)
(* the texts of Opened open one around the literal 1 and go on with up to   *)
(* two more characters, which keeps the recursive descent at two            *)
(* expressions deep.                                                        *)
Sources ==
    LET Pieces == {<<"1">>, <<"a">>, <<"+">>, <<"*">>, <<"=">>, <<")">>,
                   <<";">>, <<" ">>, <<"\"">>, <<"\"", "\\", "n", "\"">>,
                   <<"/", "/", "a", "\n">>, <<"/">>, <<"/", "*">>,
                   <<"/", "*", "*", "/">>}
        Operands == {<<"1">>, <<"2">>, <<"a">>}
        Operators == {<<"+">>, <<"*">>, <<"=">>}
        RECURSIVE Texts(_)
        Texts(n) == IF n = 0 THEN {<<>>}
                    ELSE Texts(n - 1) \cup {s \o p : s \in Texts(n - 1), p \in Pieces}
        RECURSIVE Joined(_)
        Joined(n) == IF n = 0 THEN Operands
                     ELSE Joined(n - 1)
                          \cup {s \o o \o x : s \in Joined(n - 1), o \in Operators, x \in Operands}
        After == {<<>>, <<"!">>, <<")">>, <<";">>}
        Opened == {<<"(", "1">> \o s \o t : s \in After, t \in After}
    IN Texts(MaxPieces) \cup Joined(MaxOperators) \cup Opened

ParserInit ==
    /\ gc = NewCollector
    /\ ret = NoRet
    /\ live_only = TRUE
    /\ compiler = NewCompiler
    /\ vm = NewVM
    /\ phase = "idle"
    /\ unit = NoUnit
    /\ scripts = 0
    /\ steps = 0
    /\ parser = [tokens |-> <<>>, current |-> 0]
    /\ \E source \in Sources : parsed = [NotParsed EXCEPT !.source = source]
    /\ event_loop = NewEventLoop
    /\ promise = NoPromise

(* Lexer::new(source).tokenize() *)
Tokenize ==
    /\ parsed.call = "none"
    /\ \E r \in {tokenize([input |-> parsed.source, position |-> 0], <<>>)} :
          parsed' = [parsed EXCEPT !.call = "tokenize", !.err = r.err, !.tokens = r.tokens]
    /\ UNCHANGED <<parser, gc, ret, live_only, compiler, vm, phase, unit, scripts, steps,
                   event_loop, promise>>

(* parser.parse(source): the tokens are stored only when tokenize returns  *)
(* Ok; program starts at position 0.                                       *)
Parse ==
    /\ parsed.call = "none"
    /\ \E lexed \in {tokenize([input |-> parsed.source, position |-> 0], <<>>)} :
          IF lexed.err # "none"
          THEN /\ parsed' = [parsed EXCEPT !.call = "parse", !.err = lexed.err]
               /\ UNCHANGED parser
          ELSE \E r \in {program(lexed.tokens, 0, <<>>, 0)} :
                  /\ parser' = [tokens |-> lexed.tokens, current |-> r.current]
                  /\ parsed' = [parsed EXCEPT !.call = "parse", !.err = r.err,
                                              !.body = r.body, !.failed = r.failed]
    /\ UNCHANGED <<gc, ret, live_only, compiler, vm, phase, unit, scripts, steps,
                   event_loop, promise>>

ParserNext ==
    \/ Tokenize
    \/ Parse

SpecParser == ParserInit /\ [][ParserNext]_vars

-----------------------------------------------------------------------------
(* Event loop: the calls a host makes on one event loop and one promise *)

hostVars == <<gc, ret, live_only, compiler, vm, phase, unit, scripts, steps, parser, parsed>>

PromiseInit ==
    /\ gc = NewCollector
    /\ ret = NoRet
    /\ live_only = TRUE
    /\ EngineIdle

Start ==
    /\ ~event_loop.running
    /\ event_loop' = event_loop_start(event_loop)
    /\ UNCHANGED <<promise, hostVars>>

(* stop drops the microtasks and with them the functions they hold *)
Stop ==
    /\ event_loop.running
    /\ event_loop' = event_loop_stop(event_loop)
    /\ promise' = [promise EXCEPT !.resolve = IF @ = "queued" THEN "dropped" ELSE @,
                                  !.reject = IF @ = "queued" THEN "dropped" ELSE @]
    /\ UNCHANGED hostVars

CreatePromise ==
    /\ promise.state = "None"
    /\ \E made \in {create_promise(event_loop)} :
          event_loop' = made.event_loop /\ promise' = made.promise
    /\ UNCHANGED hostVars

(* process_pending: every queued microtask runs; the only one is the        *)
(* promise's, which runs the executor.                                      *)
ProcessPending ==
    /\ event_loop.running
    /\ event_loop.microtasks # <<>>
    /\ event_loop' = [event_loop EXCEPT !.microtasks = <<>>]
    /\ \E plan \in ExecutorPlans : promise' = executor(promise, plan)
    /\ UNCHANGED hostVars

(* The host calls a function the executor left it *)
CallResolve ==
    /\ promise.resolve = "held"
    /\ \E value \in PromiseValues : promise' = resolve(promise, value)
    /\ UNCHANGED <<event_loop, hostVars>>

CallReject ==
    /\ promise.reject = "held"
    /\ \E value \in PromiseValues : promise' = reject(promise, value)
    /\ UNCHANGED <<event_loop, hostVars>>

Then ==
    /\ promise.state # "None"
    /\ promise.registered < MaxCallbacks
    /\ promise' = then(promise)
    /\ UNCHANGED <<event_loop, hostVars>>

PromiseNext ==
    \/ Start
    \/ Stop
    \/ CreatePromise
    \/ ProcessPending
    \/ CallResolve
    \/ CallReject
    \/ Then

SpecPromise == PromiseInit /\ [][PromiseNext]_vars


-----------------------------------------------------------------------------
(* Collector: properties *)

(* C1: immediately after a collect returns, every handle reachable from the *)
(* root set through objects' outgoing references resolves to an object      *)
(* (the client having only ever rooted and stored handles of live objects). *)
C1_RootReachableResolves ==
    (ret.op = "collect" /\ live_only) => Reachable(gc) \subseteq Live(gc)

(* C2: the handle an allocate call returns resolves to an object at the     *)
(* moment allocate returns, whether or not the call ran a collection.       *)
C2_AllocatedHandleResolves ==
    ret.op = "allocate" => ret.handle \in Live(gc)

-----------------------------------------------------------------------------
(* Engine: properties *)

RECURSIVE Run(_, _)
Run(m, fuel) ==
    IF Returned(m) \/ fuel = 0 THEN m ELSE Run(Step(m), fuel - 1)

(* C3: when execute has returned a runtime error, the operand stack is as   *)
(* deep as it was when that execute call started (the frame's base offset). *)
C3_ErrorTruncatesStack ==
    (phase = "idle" /\ vm.result.status = "err")
        => Len(vm.stack) = vm.result.base

(* C4: in every unit compile returns, each Jump, JumpIfFalse and JumpIfTrue *)
(* at index j with offset o has 0 <= j + 1 + o < instructions.len().        *)
C4_JumpsInRange ==
    (unit.compiled /\ unit.err = "none")
        => \A j \in DOMAIN unit.bytecode.instructions :
              unit.bytecode.instructions[j].op \in JumpOps
                  => LET target == (j - 1) + 1 + unit.bytecode.instructions[j].arg
                     IN 0 <= target /\ target < Len(unit.bytecode.instructions)

(* C5: executing the optimized unit yields the same result, the same final  *)
(* operand stack and the same globals as executing the unit before the      *)
(* optimizer ran (whenever both executions return within MaxSteps steps).   *)
C5_OptimizerPreservesSemantics ==
    (phase = "compiled")
        => LET RunUnit(bytecode) ==
                   Run(Machine(execute_enter(vm, bytecode), gc), MaxSteps)
               Outcome(m) ==
                   [status |-> m.result.status, value |-> m.result.value,
                    kind |-> m.result.kind, stack |-> m.stack,
                    globals |-> m.globals]
               Same(before, after) ==
                   (Returned(before) /\ Returned(after))
                       => Outcome(before) = Outcome(after)
           IN Same(RunUnit(unit.lowered), RunUnit(unit.bytecode))

(* C6: a compiled program never pops an empty stack, and when it reaches    *)
(* its Halt the operand stack is as deep as when the unit started: every    *)
(* expression statement, declaration, branch and loop left the depth        *)
(* unchanged.                                                               *)
C6_StackBalanced ==
    /\ vm.result.msg # "Stack underflow"
    /\ vm.result.via = "Halt" => vm.result.depth = vm.result.base

(* C7: in the unit compile returns, each break jump of a loop targets the   *)
(* instruction that follows the loop and each continue jump targets the     *)
(* loop's continue target.  The compiler fixes both indices in the unit it  *)
(* lowers; NewIndex(t) is the index, in the unit returned, of the first     *)
(* instruction the optimizer kept from index t on.                          *)
C7_BreakContinueTargets ==
    (unit.compiled /\ unit.err = "none")
        => LET lowered == unit.lowered.instructions
               returned == unit.bytecode.instructions
               Indexed == [i \in DOMAIN lowered |->
                              [op |-> lowered[i].op, arg |-> lowered[i].arg,
                               at |-> i - 1]]
               Kept == {ins.at : ins \in Range(OptimizeFrom(Indexed, 0))}
               NewIndex(t) == Cardinality({k \in Kept : k < t})
               LandsOn(jump, target) ==
                   /\ NewIndex(jump) < Len(returned)
                   /\ NewIndex(jump) + 1 + returned[NewIndex(jump) + 1].arg
                         = NewIndex(target)
           IN \A i \in DOMAIN unit.loops :
                 LET loop == unit.loops[i]
                 IN /\ \A k \in DOMAIN loop.break_jumps :
                           LandsOn(loop.break_jumps[k], loop.break_target)
                    /\ \A k \in DOMAIN loop.continue_jumps :
                           LandsOn(loop.continue_jumps[k], loop.continue_target)

(* C8: compile fails with InvalidSyntax (or with the compile error of an    *)
(* earlier statement) for every program with a break or continue that no    *)
(* loop of its own function body or of the top-level code encloses, on a    *)
(* fresh and on a reused Compiler.                                          *)
C8_StrayBreakRejected ==
    (unit.compiled /\ unit.stray) => unit.err \in CompileErrors

(* C9: execute raises InvalidBytecode only for a constant or name index     *)
(* that does not exist or a jump that leaves the instruction range; every   *)
(* opcode of a compiled unit is executed without InvalidBytecode.           *)
C9_InvalidBytecodeOnlyForBadIndex ==
    vm.result.kind = "InvalidBytecode"
        => \/ vm.result.msg \in {"Invalid constant index", "Invalid name index"}
           \/ vm.jumped_out

(* C10: when a taken jump has set the program counter outside the           *)
(* instruction range, execute fails with InvalidBytecode instead of         *)
(* returning a value.                                                       *)
C10_JumpOutOfRangeFails ==
    (Returned(vm) /\ vm.jumped_out)
        => vm.result.status = "err" /\ vm.result.kind = "InvalidBytecode"

(* C11: a Call(n) whose callee (the value below the n arguments) is a heap  *)
(* function object pushes one call frame, so the call depth grows by one,   *)
(* and the interpreter loop goes on in the callee instead of returning.     *)
C11_CallPushesFrame ==
    [][LET frame == TopFrame(vm)
           instruction == frame.bytecode.instructions[frame.pc + 1]
           callee == vm.stack[Len(vm.stack) - instruction.arg]
           CallsFunction ==
               /\ vm.call_stack # <<>>
               /\ frame.pc >= 0
               /\ frame.pc < Len(frame.bytecode.instructions)
               /\ instruction.op = "Call"
               /\ Len(vm.stack) > instruction.arg
               /\ callee.t = "Object"
               /\ callee.n \in Live(gc)
               /\ gc.objects[callee.n].object_type.kind = "Function"
       IN (VMStep /\ CallsFunction)
              => /\ ~Returned(vm')
                 /\ Len(vm'.call_stack) = Len(vm.call_stack) + 1]_vars

(* C12: a Throw executed while no handler is active ends execute with a     *)
(* runtime error that carries the string form of the value thrown (the top  *)
(* of the operand stack).  The machine keeps no record of a TryBegin, so no *)
(* handler is ever active when a Throw is reached.                          *)
C12_ThrowRaisesThrownValue ==
    [][LET frame == TopFrame(vm)
           instruction == frame.bytecode.instructions[frame.pc + 1]
           AtThrow ==
               /\ vm.call_stack # <<>>
               /\ frame.pc >= 0
               /\ frame.pc < Len(frame.bytecode.instructions)
               /\ instruction.op = "Throw"
               /\ vm.stack # <<>>
       IN (VMStep /\ AtThrow)
              => /\ vm'.result.status = "err"
                 /\ vm'.result.msg = to_string(vm.stack[Len(vm.stack)])]_vars

(* C13: compiling a program whose statement is a try statement completes    *)
(* (it does not panic), and in the unit it lowers the operand of each       *)
(* TryBegin is the index of the first instruction of the catch block and    *)
(* the Jump that follows a TryEnd targets the instruction after the catch   *)
(* block.                                                                   *)
C13_TryCompiles ==
    (unit.compiled /\ \E i \in DOMAIN unit.program :
                         unit.program[i].type = "TryStatement")
        => /\ unit.err = "none"
           /\ LET code == unit.lowered.instructions
              IN \A j \in DOMAIN code :
                    /\ code[j].op = "TryBegin"
                           => /\ code[j].arg < Len(code)
                              /\ code[code[j].arg].op = "Jump"
                    /\ (code[j].op = "TryEnd" /\ j < Len(code))
                           => /\ code[j + 1].op = "Jump"
                              /\ j + 1 + code[j + 1].arg < Len(code)
                              /\ code[j + 1 + code[j + 1].arg].op
                                     \in {"CatchEnd", "Jump"}

(* C14: the DeclareVar, DeclareLet or DeclareConst that the compiler emits  *)
(* for a declaration executes without error and changes neither the        *)
(* operand stack nor the globals, so that the code after the declaration    *)
(* runs and can read the variable.                                          *)
C14_DeclareExecutes ==
    [][LET frame == TopFrame(vm)
           instruction == frame.bytecode.instructions[frame.pc + 1]
           AtDeclare ==
               /\ vm.call_stack # <<>>
               /\ frame.pc >= 0
               /\ frame.pc < Len(frame.bytecode.instructions)
               /\ instruction.op \in {"DeclareVar", "DeclareLet", "DeclareConst"}
       IN (VMStep /\ AtDeclare)
              => /\ ~Returned(vm')
                 /\ vm'.stack = vm.stack
                 /\ vm'.globals = vm.globals]_vars

(* C15: where a statement of the program is a reference to an identifier    *)
(* that an earlier statement of the program declared as a function, or that *)
(* an earlier script of the engine left bound to an object in the globals,  *)
(* the unit loads it from the global of that name, the storage the          *)
(* declaration's StoreGlobal wrote to.                                      *)
C15_FunctionReferenceLoadsGlobal ==
    (unit.compiled /\ unit.err = "none")
        => \A k \in DOMAIN unit.program :
              LET stmt == unit.program[k]
                  name == stmt.kids[1].name
                  Declared ==
                      \/ \E i \in 1 .. (k - 1) :
                            /\ unit.program[i].type = "FunctionDeclaration"
                            /\ unit.program[i].name = name
                      \/ /\ name \in DOMAIN vm.globals
                         /\ vm.globals[name].t = "Object"
                  code == unit.lowered
              IN (/\ stmt.type = "ExpressionStatement"
                  /\ stmt.kids[1].type = "Identifier"
                  /\ Declared)
                    => \E j \in DOMAIN code.instructions :
                          /\ code.instructions[j].op = "LoadGlobal"
                          /\ code.names[code.instructions[j].arg + 1] = name

(* C16: a NewArray(n) that finds n values on the operand stack succeeds     *)
(* whatever their kind: it pops the n values and pushes one handle, that of *)
(* the array the collector has just allocated.                              *)
C16_NewArrayAcceptsAnyValues ==
    [][LET frame == TopFrame(vm)
           instruction == frame.bytecode.instructions[frame.pc + 1]
           AtNewArray ==
               /\ vm.call_stack # <<>>
               /\ frame.pc >= 0
               /\ frame.pc < Len(frame.bytecode.instructions)
               /\ instruction.op = "NewArray"
               /\ Len(vm.stack) >= instruction.arg
               /\ Len(vm.stack) - instruction.arg < max_stack_size
       IN (VMStep /\ AtNewArray)
              => /\ ~Returned(vm')
                 /\ Len(vm'.stack) = Len(vm.stack) - instruction.arg + 1
                 /\ vm'.stack[Len(vm'.stack)] = VObject(AllocatedHandle(gc))]_vars

(* C17: for a non-computed member expression o.p the instruction emitted    *)
(* just before GetProperty is a LoadConstant of the string constant "p",    *)
(* whether or not a variable named p is declared.                           *)
C17_DottedPropertyIsStringConstant ==
    (unit.compiled /\ unit.err = "none")
        => \A k \in DOMAIN unit.program :
              LET stmt == unit.program[k]
                  member == stmt.kids[1]
                  code == unit.lowered
                  KeyAt(j) == code.constants[code.instructions[j].arg + 1]
              IN (/\ stmt.type = "ExpressionStatement"
                  /\ member.type = "MemberExpression"
                  /\ member.op = "dotted")
                    => \E j \in DOMAIN code.instructions :
                          /\ code.instructions[j].op = "GetProperty"
                          /\ j > 1
                          /\ code.instructions[j - 1].op = "LoadConstant"
                          /\ KeyAt(j - 1).kind = "String"
                          /\ KeyAt(j - 1).str = member.kids[2].name

(* C18: for a token sequence of operands joined by binary operators parse   *)
(* returns the one expression statement whose tree puts each operator token *)
(* between its operands, a higher-precedence operator below a lower one,    *)
(* equal binary operators grouped left to right and assignments right to    *)
(* left.                                                                    *)
C18_BinaryOperatorsParse ==
    LET tokens == parser.tokens
        n == Len(tokens) - 1
        AssignOps == {"Assign", "PlusAssign", "MinusAssign", "MultiplyAssign",
                      "DivideAssign", "ModuloAssign", "PowerAssign"}
        Levels == <<AssignOps,
                    {"LogicalOr", "NullishCoalescing"},
                    {"LogicalAnd"},
                    {"Equal", "NotEqual", "StrictEqual", "StrictNotEqual"},
                    {"Greater", "GreaterEqual", "Less", "LessEqual", "In", "InstanceOf"},
                    {"Minus", "Plus"},
                    {"Divide", "Multiply", "Modulo", "Power"}>>
        Precedence(k) == CHOOSE l \in DOMAIN Levels : tokens[k].token_type \in Levels[l]
        Chain ==
            /\ n >= 3
            /\ n % 2 = 1
            /\ \A k \in 1 .. n :
                  IF k % 2 = 1
                  THEN tokens[k].token_type \in {"NumericLiteral", "Identifier", "StringLiteral"}
                  ELSE \E l \in DOMAIN Levels : tokens[k].token_type \in Levels[l]
        Operand(k) ==
            CASE tokens[k].token_type = "NumericLiteral" -> NumberLit(tokens[k].num)
              [] tokens[k].token_type = "StringLiteral" -> StringLit(tokens[k].name)
              [] OTHER -> Identifier(tokens[k].name)
        \* the operator that groups last in tokens[i .. j]: of the lowest
        \* precedence, the leftmost assignment or the rightmost other operator
        Root(i, j) ==
            CHOOSE k \in i .. j :
                /\ k % 2 = 0
                /\ \A m \in i .. j : m % 2 = 0 => Precedence(k) <= Precedence(m)
                /\ \A m \in i .. j :
                      (m % 2 = 0 /\ Precedence(m) = Precedence(k))
                          => IF Precedence(k) = 1 THEN k <= m ELSE m <= k
        RECURSIVE Tree(_, _)
        Tree(i, j) ==
            IF i = j THEN Operand(i)
            ELSE Expression(IF Precedence(Root(i, j)) = 1
                            THEN "AssignmentExpression" ELSE "BinaryExpression",
                            operator(tokens[Root(i, j)].token_type,
                                     Levels[Precedence(Root(i, j))]),
                            <<Tree(i, Root(i, j) - 1), Tree(Root(i, j) + 1, j)>>)
    IN (parsed.call = "parse" /\ Chain)
           => /\ parsed.err = "none"
              /\ parsed.body = <<Statement("ExpressionStatement", <<Tree(1, n)>>)>>

(* C19: parse returns UnexpectedToken or SyntaxError, and no Program, when  *)
(* a statement of the source cannot be parsed.                              *)
C19_UnparsableStatementFails ==
    (parsed.call = "parse" /\ parsed.failed > 0)
        => parsed.err \in {"UnexpectedToken", "SyntaxError"}

(* C20: the lexemes of the tokens that tokenize returns, put one after the  *)
(* other, are the source without its whitespace and its comments.           *)
C20_LexemesReproduceSource ==
    LET source == parsed.source
        RECURSIVE Lexemes(_)
        Lexemes(tokens) ==
            IF tokens = <<>> THEN <<>> ELSE Head(tokens).lexeme \o Lexemes(Tail(tokens))
        \* the first offset from i on where the line comment ends
        LineEnd(i) ==
            IF \E p \in i .. Len(source) : source[p] = "\n"
            THEN CHOOSE p \in i .. Len(source) :
                     source[p] = "\n" /\ \A q \in i .. (p - 1) : source[q] # "\n"
            ELSE Len(source) + 1
        \* the first offset after the block comment that opens at i
        BlockEnd(i) ==
            IF \E p \in (i + 2) .. (Len(source) - 1) : source[p] = "*" /\ source[p + 1] = "/"
            THEN 2 + CHOOSE p \in (i + 2) .. (Len(source) - 1) :
                         /\ source[p] = "*" /\ source[p + 1] = "/"
                         /\ \A q \in (i + 2) .. (p - 1) :
                                ~(source[q] = "*" /\ source[q + 1] = "/")
            ELSE Len(source) + 1
        \* source[i ..] without whitespace and comments; quote is the quote
        \* of the string literal that source[i] is in, "" outside of one
        RECURSIVE Stripped(_, _)
        Stripped(i, quote) ==
            IF i > Len(source) THEN <<>>
            ELSE IF quote # ""
            THEN IF source[i] = "\\" /\ i < Len(source)
                 THEN <<source[i], source[i + 1]>> \o Stripped(i + 2, quote)
                 ELSE <<source[i]>> \o Stripped(i + 1, IF source[i] = quote THEN "" ELSE quote)
            ELSE IF source[i] \in {" ", "\t", "\r", "\n"} THEN Stripped(i + 1, "")
            ELSE IF source[i] = "/" /\ i < Len(source) /\ source[i + 1] = "/"
            THEN Stripped(LineEnd(i), "")
            ELSE IF source[i] = "/" /\ i < Len(source) /\ source[i + 1] = "*"
            THEN Stripped(BlockEnd(i), "")
            ELSE <<source[i]>> \o Stripped(i + 1, IF source[i] = "\"" THEN "\"" ELSE "")
    IN (parsed.call = "tokenize" /\ parsed.err = "none")
           => Lexemes(parsed.tokens) = Stripped(1, "")

(* C21: tokenize skips every line comment and every terminated block        *)
(* comment, also one that ends the source: it returns what it returns for   *)
(* the source with each comment taken out (a blank left in its place, so    *)
(* that its neighbours stay apart), token types and lexemes alike, and a    *)
(* block comment that is never closed is a lexical error.                   *)
C21_CommentsSkipped ==
    LET source == parsed.source
        LineEnd(i) ==
            IF \E p \in i .. Len(source) : source[p] = "\n"
            THEN CHOOSE p \in i .. Len(source) :
                     source[p] = "\n" /\ \A q \in i .. (p - 1) : source[q] # "\n"
            ELSE Len(source) + 1
        Closes(i) ==
            {p \in (i + 2) .. (Len(source) - 1) : source[p] = "*" /\ source[p + 1] = "/"}
        BlockEnd(i) ==
            IF Closes(i) = {} THEN Len(source) + 1
            ELSE 2 + CHOOSE p \in Closes(i) : \A q \in Closes(i) : p <= q
        \* source[i ..] with a blank for each comment; quote is the quote of
        \* the string literal that source[i] is in, "" outside of one
        RECURSIVE Uncommented(_, _)
        Uncommented(i, quote) ==
            IF i > Len(source) THEN <<>>
            ELSE IF quote # ""
            THEN IF source[i] = "\\" /\ i < Len(source)
                 THEN <<source[i], source[i + 1]>> \o Uncommented(i + 2, quote)
                 ELSE <<source[i]>> \o Uncommented(i + 1, IF source[i] = quote THEN "" ELSE quote)
            ELSE IF source[i] = "/" /\ i < Len(source) /\ source[i + 1] = "/"
            THEN <<" ">> \o Uncommented(LineEnd(i), "")
            ELSE IF source[i] = "/" /\ i < Len(source) /\ source[i + 1] = "*"
            THEN <<" ">> \o Uncommented(BlockEnd(i), "")
            ELSE <<source[i]>> \o Uncommented(i + 1, IF source[i] = "\"" THEN "\"" ELSE "")
        \* a block comment opens outside of a string literal and never closes
        RECURSIVE Unterminated(_, _)
        Unterminated(i, quote) ==
            IF i > Len(source) THEN FALSE
            ELSE IF quote # ""
            THEN IF source[i] = "\\" /\ i < Len(source)
                 THEN Unterminated(i + 2, quote)
                 ELSE Unterminated(i + 1, IF source[i] = quote THEN "" ELSE quote)
            ELSE IF source[i] = "/" /\ i < Len(source) /\ source[i + 1] = "/"
            THEN Unterminated(LineEnd(i), "")
            ELSE IF source[i] = "/" /\ i < Len(source) /\ source[i + 1] = "*"
            THEN Closes(i) = {} \/ Unterminated(BlockEnd(i), "")
            ELSE Unterminated(i + 1, IF source[i] = "\"" THEN "\"" ELSE "")
        Shown(tokens) ==
            [k \in DOMAIN tokens |->
                <<tokens[k].token_type, tokens[k].lexeme, tokens[k].name, tokens[k].num>>]
        Same(plain) ==                        \* plain: tokenize without the comments
            /\ parsed.err = plain.err
            /\ Shown(parsed.tokens) = Shown(plain.tokens)
    IN parsed.call = "tokenize"
           => IF Unterminated(1, "")
              THEN parsed.err = "LexicalError"
              ELSE Same(tokenize([input |-> Uncommented(1, ""), position |-> 0], <<>>))

-----------------------------------------------------------------------------
(* Collector: properties of the cycles and of the counters *)

(* The heap a cycle leaves: the objects with their generations and marks,   *)
(* the two generation sets and the root set.                                *)
Heap(g) == <<g.objects, g.young_objects, g.old_objects, g.root_set>>

(* C22: the k-th collect call on a collector, counted from 1 over explicit  *)
(* calls and the calls allocate makes, leaves the heap of a full collection *)
(* when k is a multiple of 10 and the heap of a minor collection otherwise  *)
(* (an object that allocate has just inserted is swept by either).          *)
C22_EveryTenthCollectIsFull ==
    [][gc'.total_collections = gc.total_collections + 1
          => LET k == gc'.total_collections
             IN Heap(gc') = IF k % FullCollectionPeriod = 0
                            THEN Heap(full_collect(gc))
                            ELSE Heap(minor_collect(gc))]_vars

(* The heap a cycle starts from, in a step that runs one: the explicit call *)
(* starts from the heap as it is, the call allocate makes from the heap     *)
(* with the new object in it, young, unrooted and referenced by no object.  *)
Inserted == IF ret'.op = "allocate" THEN {gc.next_handle} ELSE {}

LiveBefore == Live(gc) \cup Inserted

YoungBefore == gc.young_objects \cup Inserted

MinorCycle ==
    /\ gc'.total_collections = gc.total_collections + 1
    /\ gc.total_collections % FullCollectionPeriod # 0

(* C23: a minor collection removes exactly the young objects that are not   *)
(* reachable from the root set, moves every reachable young object to the   *)
(* old generation and removes no old object, reachable or not; the young    *)
(* generation is empty after it.                                            *)
C23_MinorCollection ==
    [][MinorCycle
          => /\ Live(gc') = LiveBefore \ (YoungBefore \ Reachable(gc))
             /\ gc'.old_objects = gc.old_objects \cup (YoungBefore \cap Reachable(gc))
             /\ \A h \in gc'.old_objects : gc'.objects[h].generation = "Old"
             /\ gc'.young_objects = {}]_vars

(* A minor collection has just removed a young object and kept an old       *)
(* object that no root reaches.                                             *)
C23_Witness ==
    /\ ret.op = "collect"
    /\ gc.total_collections % FullCollectionPeriod # 1
    /\ ret.count > 0
    /\ \E h \in gc.old_objects : h \notin Reachable(gc)

FullCycle ==
    \/ /\ gc'.total_collections = gc.total_collections + 1
       /\ gc.total_collections % FullCollectionPeriod = 0
    \/ ret'.op = "force_collect"

(* C24: after a full collection, by collect or by force_collect, the live   *)
(* objects are exactly the objects that were live and reachable from the    *)
(* root set before it, whatever their generation and whether or not the     *)
(* references form cycles, and every one of them is in the generation it    *)
(* was in.                                                                  *)
C24_FullCollection ==
    [][FullCycle
          => /\ Live(gc') = LiveBefore \cap Reachable(gc)
             /\ \A h \in Live(gc') : gc'.objects[h].generation = gc.objects[h].generation
             /\ gc'.young_objects = gc.young_objects \cap Live(gc')
             /\ gc'.old_objects = gc.old_objects \cap Live(gc')]_vars

(* A full collection has just removed an object and kept a reachable object *)
(* that refers to itself.                                                   *)
C24_Witness ==
    /\ \/ ret.op = "force_collect"
       \/ ret.op = "collect" /\ gc.total_collections % FullCollectionPeriod = 1
    /\ ret.count > 0
    /\ \E h \in Live(gc) : h \in gc.objects[h].references

(* C25: a collect call that follows a run of N allocate calls, with no call *)
(* in between to root or to store one of the new handles, leaves none of    *)
(* the N objects alive: bytes_freed is at least what it was before the run  *)
(* plus the N sizes, and the object count is what it was before the run     *)
(* when every object of that moment was reachable from a root.              *)
C25_UnrootedAllocationsCollected ==
    (ret.op = "collect" /\ ret.run.n > 0)
        => /\ \A h \in (gc.next_handle - ret.run.n) .. (gc.next_handle - 1) : h \notin Live(gc)
           /\ gc.bytes_freed >= ret.run.freed + ret.run.sizes
           /\ ret.run.rooted => Cardinality(Live(gc)) = ret.run.objects

(* collect has returned after a run of allocations of some size that began *)
(* with an object in the collector, every object reachable from a root.     *)
C25_Witness ==
    /\ ret.op = "collect"
    /\ ret.run.n > 0
    /\ ret.run.sizes > 0
    /\ ret.run.rooted
    /\ ret.run.objects > 0

(* C26: allocate returns an id greater than every id returned before, the   *)
(* ids of swept objects included.  next_handle is above every id returned   *)
(* so far: no call lowers it, and allocate returns an id that is at least   *)
(* next_handle and leaves next_handle above that id.                        *)
C26_HandlesIncrease ==
    [][/\ gc'.next_handle >= gc.next_handle
       /\ ret'.op = "allocate"
             => /\ ret'.handle >= gc.next_handle
                /\ gc'.next_handle > ret'.handle
                /\ \A h \in Live(gc) \cup gc.root_set \cup Issued(gc) : ret'.handle > h]_vars

(* allocate has just returned a handle, and a handle it returned earlier    *)
(* names an object that has been swept.                                     *)
C26_Witness ==
    /\ ret.op = "allocate"
    /\ ret.handle \in Live(gc)
    /\ \E h \in Issued(gc) : h < ret.handle /\ h \notin Live(gc)

(* C27: no call lowers any of the four statistics total_allocations,        *)
(* total_collections, bytes_allocated and bytes_freed.                      *)
C27_StatisticsNeverDecrease ==
    [][/\ gc'.total_allocations >= gc.total_allocations
       /\ gc'.total_collections >= gc.total_collections
       /\ gc'.bytes_allocated >= gc.bytes_allocated
       /\ gc'.bytes_freed >= gc.bytes_freed]_vars

(* C28: bytes_allocated is the sum of the sizes of the objects in the heap, *)
(* each the estimated size of the object's present value.                   *)
C28_BytesAllocatedIsHeapSize ==
    /\ \A h \in Live(gc) : gc.objects[h].size = calculate_object_size(gc.objects[h].object_type)
    /\ gc.bytes_allocated = SumSizes(gc.objects, Live(gc))

(* update_object has just replaced a value in a heap that holds bytes and   *)
(* from which a collection has reclaimed bytes.                             *)
C28_Witness ==
    /\ ret.op = "update_object"
    /\ ret.ok
    /\ gc.bytes_allocated > 0
    /\ gc.bytes_freed > 0

(* The size of the object that allocate inserts in this step. *)
InsertedSize == ret'.run.sizes - (IF ret.op = "allocate" THEN ret.run.sizes ELSE 0)

SweepStep ==
    \/ ret'.op \in {"collect", "force_collect"}
    \/ ret'.op = "allocate" /\ gc'.total_collections = gc.total_collections + 1

(* C29: every sweep, of a collect call, of the collection allocate runs or  *)
(* of force_collect, adds to bytes_freed exactly the sizes of the objects   *)
(* it removes.                                                              *)
C29_SweepCountsFreedBytes ==
    [][SweepStep
          => gc'.bytes_freed = gc.bytes_freed
                                 + SumSizes(gc.objects, Live(gc) \ Live(gc'))
                                 + (IF Inserted \subseteq Live(gc') THEN 0 ELSE InsertedSize)]_vars

(* Handles reachable from the root set through the handles that the present *)
(* values of the objects contain.                                           *)
RECURSIVE ValueClosure(_, _)
ValueClosure(g, seen) ==
    LET more == UNION {extract_references(g.objects[h].object_type) : h \in seen \cap Live(g)}
    IN IF more \subseteq seen THEN seen ELSE ValueClosure(g, seen \cup more)

ValueReachable(g) == ValueClosure(g, g.root_set)

(* C30: a collection follows, through each object, exactly the handles in   *)
(* the value that the last successful update_object gave it (or allocate,   *)
(* if none did): a full cycle keeps the objects these handles reach from    *)
(* the roots and no other, a minor cycle removes the young objects they do  *)
(* not reach and no other.                                                  *)
C30_UpdatedReferencesDecideReachability ==
    [][/\ FullCycle => Live(gc') = LiveBefore \cap ValueReachable(gc)
       /\ MinorCycle => Live(gc') = LiveBefore \ (YoungBefore \ ValueReachable(gc))]_vars

(* A collection has kept an unrooted object that a rooted object refers to  *)
(* since an update_object: the object is newer than the one that holds it.  *)
C30_Witness ==
    /\ ret.op \in {"collect", "force_collect"}
    /\ \E h \in Live(gc) \cap gc.root_set :
          \E n \in gc.objects[h].references \cap Live(gc) : n > h /\ n \notin gc.root_set

(* C38: the young and the old handle sets share no handle, together they    *)
(* are the set of live objects, and an object's generation tag names the    *)
(* set its handle is in.                                                    *)
C38_GenerationSetsPartitionHeap ==
    /\ gc.young_objects \cap gc.old_objects = {}
    /\ gc.young_objects \cup gc.old_objects = Live(gc)
    /\ \A h \in Live(gc) :
          gc.objects[h].generation = IF h \in gc.old_objects THEN "Old" ELSE "Young"

(* Both generations hold an object: one promoted by a minor collection and *)
(* one allocated after it.                                                  *)
C38_Witness ==
    /\ ret.op = "allocate"
    /\ gc.young_objects # {}
    /\ gc.old_objects # {}

(* C37: an object that no root reaches any more is gone after at most 10    *)
(* further collect calls, promoted or not: no object in the heap has        *)
(* survived 10 collect calls since a root last reached it.                  *)
C37_UnreachableRemovedWithinPeriod ==
    \A h \in DOMAIN ret.survived : ret.survived[h] < FullCollectionPeriod

(* An old object that no root reaches has survived 8 collect calls. *)
C37_Witness ==
    \E h \in DOMAIN ret.survived : h \in gc.old_objects /\ ret.survived[h] >= 8

-----------------------------------------------------------------------------
(* Engine: properties of the operand stack and of the compiled units *)

(* C31: the operand stack never holds more than max_stack_size values, and  *)
(* an instruction that fails with StackOverflow leaves the stack as it      *)
(* found it.                                                                *)
C31_StackWithinLimit ==
    [][/\ Len(vm'.stack) <= max_stack_size
       /\ (vm.result.status = "none" /\ vm'.result.kind = "StackOverflow")
             => vm'.stack = vm.stack]_vars

(* A push on the full stack has just failed with StackOverflow. *)
C31_Witness ==
    /\ vm.result.status = "err"
    /\ vm.result.kind = "StackOverflow"
    /\ Len(vm.stack) = max_stack_size

(* The identifiers and strings of a syntax tree. *)
RECURSIVE NodeNames(_)
NodeNames(node) ==
    (IF node.name = "" THEN {} ELSE {node.name})
        \cup UNION {NodeNames(node.kids[k]) : k \in DOMAIN node.kids}

RECURSIVE IndicesInRange(_, _)
IndicesInRange(bc, identifiers) ==
    /\ \A k \in DOMAIN bc.instructions :
          /\ bc.instructions[k].op = "LoadConstant"
                => bc.instructions[k].arg \in 0 .. (Len(bc.constants) - 1)
          /\ bc.instructions[k].op \in {"LoadGlobal", "StoreGlobal"}
                => /\ bc.instructions[k].arg \in 0 .. (Len(bc.names) - 1)
                   /\ bc.names[bc.instructions[k].arg + 1] \in identifiers
    /\ \A i \in DOMAIN bc.names, j \in DOMAIN bc.names :
          bc.names[i] = bc.names[j] => i = j
    /\ \A c \in DOMAIN bc.constants :
          bc.constants[c].kind = "Function"
              => IndicesInRange(bc.constants[c].bytecode, identifiers)

C34_CompilerNestingRestored ==
    (unit.compiled /\ unit.err # "panic")
        => /\ Len(compiler.scopes) = 1
           /\ compiler.loop_stack = <<>>
           /\ compiler.function_depth = 0

(* C35: two different variables that resolve at one program point have      *)
(* different local slot indices.  The compiler's scope stack is the set of  *)
(* variables that resolve at the point the compiler has reached; the claim  *)
(* is that resolve_variable maps different names to different indices.      *)
ResolvableNames(scopes) ==
    UNION {DOMAIN scopes[i].variables : i \in DOMAIN scopes}

C35_DistinctSlots ==
    \A a \in ResolvableNames(compiler.scopes) :
        \A b \in ResolvableNames(compiler.scopes) \ {a} :
            resolve_variable(compiler, a).index # resolve_variable(compiler, b).index

(* C36: every SetProperty finds object, key and value in the same relative  *)
(* positions on the operand stack.  In the programs of the model a property *)
(* key is the identifier y, a property value the literal 1 and the object   *)
(* either the literal under construction (Duplicate) or the variable x, so  *)
(* the instruction that pushed an operand tells which operand it is.        *)
(* SetPropertyOperands lists the three operands from the deepest to the top *)
(* of the stack; the order of the object literal { y: 1 } is the reference. *)
OperandRole(bc, i) ==
    LET ins == bc.instructions[i]
    IN CASE ins.op = "LoadConstant" -> "value"
         [] ins.op = "LoadGlobal" /\ bc.names[ins.arg + 1] = "y" -> "key"
         [] ins.op \in {"Duplicate", "LoadLocal", "LoadGlobal"} -> "object"
         [] OTHER -> "other"

SetPropertyOperands(bc, j) ==
    <<OperandRole(bc, j - 3), OperandRole(bc, j - 2), OperandRole(bc, j - 1)>>

SetPropertyAt(bc) ==
    {j \in 4 .. BcLen(bc) : bc.instructions[j].op = "SetProperty"}

PropertyLiteral ==
    <<Statement("ExpressionStatement",
        <<Expression("ObjectExpression", "",
                     <<Property(Identifier("y"), NumberLit(1))>>)>>)>>

LiteralOperands ==
    LET bc == compile(NewCompiler, PropertyLiteral).lowered
    IN SetPropertyOperands(bc, CHOOSE j \in SetPropertyAt(bc) : TRUE)

C36_SetPropertyOperandOrder ==
    \A j \in SetPropertyAt(unit.lowered) :
        SetPropertyOperands(unit.lowered, j) = LiteralOperands

(* C40: Parser::parse terminates on every token sequence and the cursor     *)
(* never moves past the EOF token: a call of parse returns (its recursive   *)
(* descent advances, so the stack does not overflow) and leaves             *)
(* self.current on a token of the list.                                     *)
C40_ParseTerminates ==
    parsed.call = "parse"
        => /\ parsed.err # "overflow"
           /\ parsed.err = "none" => parser.current < Len(parser.tokens)

(* C33: the mutex of the collector handle is held only for one heap         *)
(* operation: whenever an instruction has completed or execute has returned *)
(* (the error returns of Call included) the mutex is free, and neither the  *)
(* VM nor the Runtime has called lock() while holding it.                   *)
C33_CollectorLockReleased == vm.gc_lock = "free"

(* Call has looked its callee up in the heap under the guard and returned   *)
(* its error, after LoadConstant allocated the callee under a guard too.    *)
C33_Witness ==
    /\ vm.result.status = "err"
    /\ vm.result.msg = "Function calls not fully implemented"
    /\ gc.total_allocations > 0
    /\ vm.gc_lock = "free"

(* C39: a promise settles at most once and its callbacks are called exactly *)
(* once: no call changes the state or the value of a promise that is        *)
(* Fulfilled or Rejected, no callback registered with then is called twice, *)
(* and once the promise is settled every registered callback has been       *)
(* called.                                                                  *)
Settled(p) == p.state \in {"Fulfilled", "Rejected"}

TimesInvoked(p, callback) ==
    Cardinality({i \in DOMAIN p.invoked : p.invoked[i].callback = callback})

C39_PromiseSettlesOnce ==
    [][/\ Settled(promise)
           => promise'.state = promise.state /\ promise'.value = promise.value
       /\ \A callback \in 1 .. promise'.registered :
             /\ TimesInvoked(promise', callback) <= 1
             /\ Settled(promise') => TimesInvoked(promise', callback) = 1]_vars

====
